---- MODULE Spec2Model ----
(***************************************************************************)
(* A model of the concept-assignment pipeline of cognitive_framing_research *)
(* (src/concept_assignment, src/concepts, src/canonicalization).            *)
(*                                                                         *)
(* Numbers.  Python floats are modelled in fixed point: the real x is the   *)
(* integer 1000 * x (Scale).  Every weight of the model is a multiple of    *)
(* 0.1 and every score a multiple of 0.01, so products divided by Scale are *)
(* exact.  Floating-point rounding itself is not modelled.                  *)
(*                                                                         *)
(* Text.  A Python str is a TLA+ string; Len, SubSeq and \o act on it       *)
(* character by character.                                                 *)
(***************************************************************************)
EXTENDS Integers, Sequences, FiniteSets, TLC

VARIABLES
    EMBEDDINGS_AVAILABLE,   \* concept_assignment.py:38-43, set at import
    backend,                \* the sentence-transformers model behind SentenceTransformer(...)
    assigner,               \* the object the methods are called on (self)
    ctor,                   \* the arguments self was constructed with
    arg,                    \* ScoreSpec: the (text, concept) the scoring functions are applied to
    last                    \* the last call: its name, arguments, locals and return value

vars == <<EMBEDDINGS_AVAILABLE, backend, assigner, ctor, arg, last>>

\* ------------------------------------------------------------------ bounds

\* Longest generated text of ScoreSpec.
MaxTextLen == 3

\* Longest segment list handed to assign_all_concepts.
MaxSegs == 2

\* ------------------------------------------------------------- fixed point

Scale == 1000

\* Python's None.  An Optional[float] is None or <<x>> for the float x.
None == <<>>

Min(a, b) == IF a <= b THEN a ELSE b

Max(a, b) == IF a >= b THEN a ELSE b

\* ------------------------------------------------------------------- text

UpperCase == "ABCDEFGHIJKLMNOPQRSTUVWXYZ"

LowerCase == "abcdefghijklmnopqrstuvwxyz"

Digits == "0123456789"

CharsOf(s) == {SubSeq(s, i, i) : i \in 1..Len(s)}

UpperChars == CharsOf(UpperCase)

\* \s of the re module (ASCII part).
Whitespace == {" ", "\t", "\n", "\r", "\f"}

\* \w of the re module (ASCII part).
WordChars == UpperChars \cup CharsOf(LowerCase) \cup CharsOf(Digits) \cup {"_"}

\* The characters re.sub(r'[^\w\s]', ' ', text) keeps.
KeptChars == WordChars \cup Whitespace

\* str.lower() on the upper-case letters.
LowerOf ==
    [ch \in UpperChars |->
        LET i == CHOOSE k \in 1..Len(UpperCase) : SubSeq(UpperCase, k, k) = ch
        IN  SubSeq(LowerCase, i, i)]

\* str.lower() on one character.
LowerChar(ch) == IF ch \in UpperChars THEN LowerOf[ch] ELSE ch

RECURSIVE ConcatAll(_, _, _)
\* "".join(pieces[a-1:b]), by halves: the depth of the evaluation is logarithmic in the
\* number of pieces.
ConcatAll(pieces, a, b) ==
    IF a > b THEN ""
    ELSE IF a = b THEN pieces[a]
    ELSE ConcatAll(pieces, a, (a + b) \div 2) \o ConcatAll(pieces, ((a + b) \div 2) + 1, b)

\* str.lower()
lower(s) == ConcatAll([i \in 1..Len(s) |-> LowerChar(SubSeq(s, i, i))], 1, Len(s))

\* re.sub(r'[^\w\s]', ' ', text) on one character.
PunctToSpace(ch) == IF ch \in KeptChars THEN ch ELSE " "

\* re.sub(r'[^\w\s]', ' ', text)
PunctToSpaces(s) ==
    ConcatAll([i \in 1..Len(s) |-> PunctToSpace(SubSeq(s, i, i))], 1, Len(s))

\* `sub in s` for two strings.
Contains(sub, s) ==
    \E i \in 0..(Len(s) - Len(sub)) : SubSeq(s, i + 1, i + Len(sub)) = sub

\* The elements of a finite set of integers in ascending order.
Ascending(S) ==
    [k \in 1..Cardinality(S) |-> CHOOSE x \in S : Cardinality({y \in S : y < x}) = k - 1]

\* The indices at which a word of s starts: a character that is no whitespace, at the
\* start of s or after whitespace.
WordStarts(s) ==
    {i \in 1..Len(s) :
        /\ SubSeq(s, i, i) \notin Whitespace
        /\ (i = 1 \/ SubSeq(s, i - 1, i - 1) \in Whitespace)}

\* The index at which the word that starts at i ends.
WordEnd(s, i) ==
    CHOOSE j \in i..Len(s) :
        /\ \A k \in i..j : SubSeq(s, k, k) \notin Whitespace
        /\ (j = Len(s) \/ SubSeq(s, j + 1, j + 1) \in Whitespace)

\* The words of s that start at the given indices.
WordsAt(s, starts) == [k \in DOMAIN starts |-> SubSeq(s, starts[k], WordEnd(s, starts[k]))]

\* str.split(): the maximal runs of non-whitespace characters, in order.
split(s) == WordsAt(s, Ascending(WordStarts(s)))

Range(seq) == {seq[i] : i \in DOMAIN seq}

RECURSIVE join(_, _)
\* sep.join(items)
join(sep, items) ==
    IF items = <<>> THEN ""
    ELSE IF Len(items) = 1 THEN items[1]
    ELSE items[1] \o sep \o join(sep, Tail(items))

\* items[:n]
Take(items, n) == SubSeq(items, 1, Min(n, Len(items)))

\* --------------------------------------------------------------- concepts

\* src/concepts/concept_definitions.py:51-136
IncomeWealthInequality ==
    [ id |-> "income_wealth_inequality",
      name |-> "Income and Wealth Inequality",
      description |->
        "Discussions of income and wealth inequality, including disparities "
        \o "in earnings, assets, economic opportunity, and distribution of resources. "
        \o "This concept focuses on how inequality is represented, measured, discussed, "
        \o "and framed across different sources and time periods.",
      inclusion_criteria |-> <<
        "Discusses income inequality, wage gaps, or earnings disparities",
        "Addresses wealth inequality, asset distribution, or wealth gaps",
        "Mentions economic inequality, economic disparity, or distribution of resources",
        "References measures of inequality (Gini coefficient, income quintiles, etc.)",
        "Discusses policies, trends, or analysis related to economic inequality",
        "Compares economic outcomes across different groups (by income, class, etc.)",
        "Discusses social mobility, economic opportunity, or access to resources",
        "Mentions the middle class, working class, or economic stratification" >>,
      exclusion_criteria |-> <<
        "Articles that only mention inequality in passing without substantive discussion",
        "Articles focused solely on specific policy proposals without inequality context",
        "Articles about inequality in non-economic contexts (e.g., health outcomes alone)",
        "Articles that mention 'inequality' but are actually about other topics",
        "Brief mentions without analysis or discussion of inequality patterns" >>,
      seed_terms |-> <<
        "income inequality", "wealth inequality", "economic inequality", "wage gap",
        "wealth gap", "income gap", "economic disparity", "wealth disparity",
        "income distribution", "wealth distribution",
        "gini coefficient", "income quintile", "wealth quintile", "top 1%", "top 10%",
        "bottom 50%", "poverty line", "average income", "median income",
        "average wealth", "median wealth",
        "economic mobility", "social mobility", "class divide", "economic stratification",
        "wealth concentration", "economic opportunity",
        "tax inequality", "wealth tax", "minimum wage", "living wage", "economic justice",
        "economic fairness",
        "inequality", "wealth", "income", "wage", "gap", "disparity", "distribution",
        "gini", "poverty", "mobility", "stratification", "concentration", "opportunity",
        "tax reform" >> ]

\* The registry, concept id -> Concept.
CONCEPTS == ("income_wealth_inequality" :> IncomeWealthInequality)

\* Concept objects a caller builds itself (Concept is a plain dataclass): the concept of
\* the docstring example of _keyword_match_score, one without seed terms, and one whose
\* seed terms are written over the alphabet of the generated texts.
ExampleConcept ==
    [ id |-> "example", name |-> "Example",
      description |-> "Income inequality",
      inclusion_criteria |-> << "Discusses income inequality" >>,
      exclusion_criteria |-> <<>>,
      seed_terms |-> << "income inequality", "wealth gap", "inequality" >> ]

NoSeedConcept ==
    [ id |-> "no_seeds", name |-> "No seeds",
      description |-> "Nothing",
      inclusion_criteria |-> <<>>,
      exclusion_criteria |-> <<>>,
      seed_terms |-> <<>> ]

LetterConcept ==
    [ id |-> "letters", name |-> "Letters",
      description |-> "a b",
      inclusion_criteria |-> << "a", "b" >>,
      exclusion_criteria |-> <<>>,
      seed_terms |-> << "a", "b", "a b", "b a", "A", "B", "a a", "b b", "a%", "ab" >> ]

TenTermConcept ==
    [ id |-> "ten_terms", name |-> "Ten terms",
      description |-> "ten",
      inclusion_criteria |-> <<>>,
      exclusion_criteria |-> <<>>,
      seed_terms |-> << "a", "x1", "x2", "x3", "x4", "x5", "x6", "x7", "x8", "x y" >> ]

\* ---------------------------------------------------------- keyword score
\* An operator that would name an intermediate value with LET takes it as a parameter
\* instead: each value of the source's locals is computed at one place.

\* concept_assignment.py:114-119
_normalize_text_for_keywords(text) == PunctToSpaces(lower(text))

\* concept_assignment.py:162-175: whether a seed term, lower-cased, adds 1 to phrase_matches.
PhraseMatch(normalized_term, normalized_text, words) ==
    IF Contains(normalized_term, normalized_text) THEN TRUE
    ELSE IF Contains(" ", normalized_term)
         THEN \A word \in Range(split(normalized_term)) : word \in words
         ELSE normalized_term \in words

\* concept_assignment.py:162-176: the words a seed term, lower-cased, adds to all_seed_words.
SeedWords(normalized_term, normalized_text) ==
    IF Contains(normalized_term, normalized_text) THEN {}
    ELSE IF Contains(" ", normalized_term)
         THEN Range(split(normalized_term))
         ELSE {normalized_term}

\* concept_assignment.py:149-176: phrase_matches after the loop over the seed terms.
PhraseMatches(seed_terms, normalized_text, words) ==
    Cardinality({i \in DOMAIN seed_terms :
                    PhraseMatch(lower(seed_terms[i]), normalized_text, words)})

\* concept_assignment.py:158-181: word_matches after the loop over all_seed_words.
WordMatches(seed_terms, normalized_text, words) ==
    Cardinality(
        UNION {SeedWords(lower(seed_terms[i]), normalized_text) : i \in DOMAIN seed_terms}
        \cap words)

\* A variant of EffectiveMatches that gives no credit for a single word.
EffectiveMatchesOfPhrases(phrase_matches, word_matches) ==
    IF phrase_matches = 0 /\ word_matches >= 2 THEN 1 * Scale ELSE phrase_matches * Scale

\* concept_assignment.py:185-194: the effective match count (fixed point: 500 is 0.5).
EffectiveMatches(phrase_matches, word_matches) ==
    IF phrase_matches = 0 /\ word_matches > 0
    THEN IF word_matches >= 2 THEN 1 * Scale ELSE Scale \div 2
    ELSE phrase_matches * Scale

\* concept_assignment.py:201-211: the base score of a non-zero match count.
BaseScore(matches) ==
    IF matches = Scale \div 2 THEN 150
    ELSE IF matches = 1 * Scale THEN 300
    ELSE IF matches = 2 * Scale THEN 500
    ELSE IF matches = 3 * Scale THEN 650
    ELSE 800 + Min(200, ((matches - 4 * Scale) * 50) \div Scale)

\* A variant of HighMatchRatio that asks for more matches than seed terms.
HighMatchRatioOfAll(matches, total_terms) == matches > total_terms * Scale

\* concept_assignment.py:215-216: match_ratio = matches / total_terms is above 0.1.
HighMatchRatio(matches, total_terms) == matches * 10 > total_terms * Scale

\* concept_assignment.py:215-217: the boost.
Boost(base_score, matches, total_terms) ==
    IF HighMatchRatio(matches, total_terms)
    THEN Min(Scale, base_score + 100)
    ELSE base_score

\* concept_assignment.py:219
CapScore(base_score) == Min(Scale, base_score)

\* concept_assignment.py:199-219
ScoreOfMatches(matches, total_terms) ==
    IF matches = 0 THEN 0
    ELSE CapScore(Boost(BaseScore(matches), matches, total_terms))

\* concept_assignment.py:146-219, with normalized_text and words computed.
ScoreOfWords(seed_terms, normalized_text, words) ==
    IF Len(seed_terms) = 0 THEN 0
    ELSE ScoreOfMatches(
            EffectiveMatches(PhraseMatches(seed_terms, normalized_text, words),
                             WordMatches(seed_terms, normalized_text, words)),
            Len(seed_terms))

\* concept_assignment.py:145-219, with normalized_text computed.
ScoreOfNormalized(seed_terms, normalized_text) ==
    ScoreOfWords(seed_terms, normalized_text, Range(split(normalized_text)))

\* concept_assignment.py:121-219
_keyword_match_score(text, concept) ==
    ScoreOfNormalized(concept.seed_terms, _normalize_text_for_keywords(text))

\* --------------------------------------------------------------- segments

\* TextSegment objects (canonicalization.py:20-35) handed to the assigner.
SegText1 == "The income inequality has grown, and the wealth gap is widening."

SegText2 == "Tax season."

SegText3 == "Weather report"

Seg1 == [id |-> "seg1", document_id |-> "doc1", text |-> SegText1, position |-> 0]

Seg2 == [id |-> "seg2", document_id |-> "doc1", text |-> SegText2, position |-> 1]

Seg3 == [id |-> "seg3", document_id |-> "doc2", text |-> SegText3, position |-> 0]

Segments == {Seg1, Seg2, Seg3}

\* Paragraphs of documents: two of at least 100 characters that discuss the concept,
\* one of at least 100 characters that does not, and one that is too short to be kept.
Para1 == "Income inequality has widened over the last decade, and the wealth gap between the richest households and everyone else keeps growing."

Para2 == "The city council met on Tuesday to discuss the new schedule for street cleaning and the opening hours of the public library."

Para3 == "Short note."

Para4 == "A new report on the minimum wage finds that the wage gap between men and women has narrowed, although poverty remains widespread."

TabulatedTexts == {SegText1, SegText2, SegText3, Para1, Para2, Para4}

\* Concept ids are unique: the concept objects of the model, by id.
AllConcepts ==
    {IncomeWealthInequality, ExampleConcept, NoSeedConcept, LetterConcept, TenTermConcept}

ConceptOf(concept_id) == CHOOSE c \in AllConcepts : c.id = concept_id

\* _keyword_match_score on the segments of the model, evaluated once: it is a pure
\* function of the text and of the concept.
KeywordScoreTable ==
    [text \in TabulatedTexts, concept_id \in {c.id : c \in AllConcepts} |->
        _keyword_match_score(text, ConceptOf(concept_id))]

\* self._keyword_match_score(text, concept), concept_assignment.py:358
KeywordScore(text, concept) ==
    IF <<text, concept.id>> \in DOMAIN KeywordScoreTable
    THEN KeywordScoreTable[text, concept.id]
    ELSE _keyword_match_score(text, concept)

\* ------------------------------------------------------- embedding backend

\* concept_assignment.py:231-233, the text a concept is embedded from.
ConceptText(concept) ==
    concept.description \o ". "
        \o join(" ", Take(concept.inclusion_criteria, 3))
        \o " " \o join(" ", Take(concept.seed_terms, 10))

IncomeWealthInequalityText == ConceptText(IncomeWealthInequality)

ExampleConceptText == ConceptText(ExampleConcept)

\* The embedding model is an external library: a deterministic function from texts to
\* vectors.  The model takes two-dimensional integer vectors of norm 5 or 0, so that
\* every cosine is a multiple of 0.04.
VectorPool == << <<0, 0>>, <<5, 0>>, <<0, 5>>, <<-3, -4>>, <<4, 3>> >>

\* self.embedding_model.encode(text, convert_to_numpy=True), concept_assignment.py:235, 278
Encode(text) ==
    IF text = IncomeWealthInequalityText THEN <<3, 4>>
    ELSE IF text = ExampleConceptText THEN <<0, 5>>
    ELSE IF text = SegText1 THEN <<4, 3>>
    ELSE IF text = SegText2 THEN <<5, 0>>
    ELSE IF text = SegText3 THEN <<-3, -4>>
    ELSE VectorPool[(Len(text) % Len(VectorPool)) + 1]

\* np.dot
Dot(u, v) == u[1] * v[1] + u[2] * v[2]

\* np.linalg.norm, exact on the vectors of the model.
Norm(v) == CHOOSE n \in 0..(Dot(v, v)) : n * n = Dot(v, v)

\* concept_assignment.py:284-286, for a non-zero denominator.
CosineSimilarity(u, v) == (Dot(u, v) * Scale) \div (Norm(u) * Norm(v))

\* A variant of ClampedSimilarity that returns the cosine as it is.
UnclampedSimilarity(u, v) ==
    IF Norm(u) * Norm(v) = 0 THEN 0 ELSE CosineSimilarity(u, v)

\* concept_assignment.py:284-291.  With a zero vector the float32 division 0/0 gives
\* nan (a warning, no exception), and max(0.0, nan) is 0.0: max keeps its first
\* argument unless the second compares greater.
ClampedSimilarity(u, v) ==
    IF Norm(u) * Norm(v) = 0 THEN 0 ELSE Max(0, CosineSimilarity(u, v))

\* ------------------------------------------------------------ the assigner

DefaultKeywordWeight == 400

DefaultEmbeddingWeight == 600

DefaultMinConfidence == 500

HelperDefaultMinConfidence == 150

PreviewLen == 200

\* Keyword arguments are a record of the arguments given; an omitted one takes its default.
Arg(kwargs, name, default) == IF name \in DOMAIN kwargs THEN kwargs[name] ELSE default

NoCache == [id \in {} |-> <<0, 0>>]

\* A variant of ModelLoaded in which a model that fails to load goes unnoticed.
ModelRequested(use_embeddings, available, be) == use_embeddings /\ available

\* concept_assignment.py:98-109: self.use_embeddings after the constructor.
ModelLoaded(use_embeddings, available, be) == use_embeddings /\ available /\ be.loads

\* concept_assignment.py:77-112, ConceptAssigner.__init__
ConceptAssignerInit(kwargs, available, be) ==
    [ keyword_weight |-> Arg(kwargs, "keyword_weight", DefaultKeywordWeight),
      embedding_weight |-> Arg(kwargs, "embedding_weight", DefaultEmbeddingWeight),
      min_confidence |-> Arg(kwargs, "min_confidence", DefaultMinConfidence),
      use_embeddings |-> ModelLoaded(Arg(kwargs, "use_embeddings", TRUE), available, be),
      embedding_model |->
        IF ModelLoaded(Arg(kwargs, "use_embeddings", TRUE), available, be)
        THEN "SentenceTransformer" ELSE "None",
      cache |-> NoCache ]

\* A variant of StoreConceptEmbedding that caches another vector than it returns.
StoreSwappedEmbedding(self, concept, concept_text, embedding) ==
    [ raised |-> FALSE, ret |-> embedding,
      self |-> [self EXCEPT !.cache =
                    (concept.id :> <<embedding[2], embedding[1]>>) @@ self.cache],
      encode_calls |-> <<concept_text>> ]

\* concept_assignment.py:236-238: the embedding is cached and returned.
\* encode_calls lists the texts handed to encode.
StoreConceptEmbedding(self, concept, concept_text, embedding) ==
    [ raised |-> FALSE, ret |-> embedding,
      self |-> [self EXCEPT !.cache = (concept.id :> embedding) @@ self.cache],
      encode_calls |-> <<concept_text>> ]

\* A variant of ComputeConceptEmbedding that caches a zero vector when encode raises.
CacheFailedEmbedding(self, concept, concept_text, be) ==
    IF concept_text \in be.failing
    THEN [raised |-> TRUE, ret |-> <<>>,
          self |-> [self EXCEPT !.cache = (concept.id :> <<0, 0>>) @@ self.cache],
          encode_calls |-> <<concept_text>>]
    ELSE StoreConceptEmbedding(self, concept, concept_text, Encode(concept_text))

\* concept_assignment.py:235-238: encode raises, or the embedding is stored.
ComputeConceptEmbedding(self, concept, concept_text, be) ==
    IF concept_text \in be.failing
    THEN [raised |-> TRUE, ret |-> <<>>, self |-> self, encode_calls |-> <<concept_text>>]
    ELSE StoreConceptEmbedding(self, concept, concept_text, Encode(concept_text))

\* concept_assignment.py:221-238
_get_concept_embedding(self, concept, be) ==
    IF concept.id \in DOMAIN self.cache
    THEN [raised |-> FALSE, ret |-> self.cache[concept.id], self |-> self,
          encode_calls |-> <<>>]
    ELSE IF ~self.use_embeddings
    THEN [raised |-> TRUE, ret |-> <<>>, self |-> self, encode_calls |-> <<>>]
    ELSE ComputeConceptEmbedding(self, concept, ConceptText(concept), be)

\* concept_assignment.py:281-294, once the concept embedding is got or has raised.
SimilarityOf(text, text_embedding, got) ==
    [ ret |-> IF got.raised THEN 0 ELSE ClampedSimilarity(text_embedding, got.ret),
      self |-> got.self,
      encode_calls |-> <<text>> \o got.encode_calls ]

\* concept_assignment.py:240-294
_embedding_similarity_score(self, text, concept, be) ==
    IF ~self.use_embeddings
    THEN [ret |-> 0, self |-> self, encode_calls |-> <<>>]
    ELSE IF text \in be.failing
    THEN [ret |-> 0, self |-> self, encode_calls |-> <<text>>]
    ELSE SimilarityOf(text, Encode(text), _get_concept_embedding(self, concept, be))

\* concept_assignment.py:296-315: always False.
_check_exclusion_criteria(text, concept) == FALSE

\* concept_assignment.py:368-377: the blend.
CombinedScore(self, keyword_score, embedding_score) ==
    IF self.use_embeddings
    THEN (self.keyword_weight * keyword_score) \div Scale
            + (self.embedding_weight * embedding_score) \div Scale
    ELSE keyword_score

\* concept_assignment.py:373, 377: the method tag.
AssignmentMethod(self) == IF self.use_embeddings THEN "hybrid" ELSE "keyword"

\* A variant of BelowThreshold that also rejects a score equal to the threshold.
BelowThresholdInclusive(combined_score, min_confidence) ==
    combined_score <= min_confidence

\* concept_assignment.py:383: the test that returns None.
BelowThreshold(combined_score, min_confidence) == combined_score < min_confidence

\* concept_assignment.py:397
TextPreview(text) ==
    IF Len(text) > PreviewLen THEN SubSeq(text, 1, PreviewLen) \o "..." ELSE text

\* concept_assignment.py:395: the embedding score as the metadata reports it.
MetadataEmbeddingScore(self, embedding_score) ==
    IF self.use_embeddings THEN <<embedding_score>> ELSE None

\* A variant of ConceptInstance whose confidence is the margin over the threshold.
ConceptInstanceOfMargin(self, text_segment, concept, keyword_score, embedding_score, combined_score) ==
    [ concept_id |-> concept.id,
      text_segment_id |-> text_segment.id,
      confidence |-> combined_score - self.min_confidence,
      assignment_method |-> AssignmentMethod(self),
      metadata |->
        [ keyword_score |-> keyword_score,
          embedding_score |-> MetadataEmbeddingScore(self, embedding_score),
          text_length |-> Len(text_segment.text),
          text_preview |-> TextPreview(text_segment.text) ] ]

\* concept_assignment.py:388-399
ConceptInstance(self, text_segment, concept, keyword_score, embedding_score, combined_score) ==
    [ concept_id |-> concept.id,
      text_segment_id |-> text_segment.id,
      confidence |-> combined_score,
      assignment_method |-> AssignmentMethod(self),
      metadata |->
        [ keyword_score |-> keyword_score,
          embedding_score |-> MetadataEmbeddingScore(self, embedding_score),
          text_length |-> Len(text_segment.text),
          text_preview |-> TextPreview(text_segment.text) ] ]

\* concept_assignment.py:379-401.  Beside the return value: self after the call, the
\* locals at the return and the texts handed to encode.
AssignThreshold(self, text_segment, concept, keyword_score, embedding_score, combined_score, encode_calls) ==
    [ ret |-> IF BelowThreshold(combined_score, self.min_confidence)
              THEN None
              ELSE ConceptInstance(self, text_segment, concept,
                                   keyword_score, embedding_score, combined_score),
      self |-> self,
      keyword_score |-> keyword_score,
      embedding_score |-> embedding_score,
      combined_score |-> combined_score,
      encode_calls |-> encode_calls ]

\* concept_assignment.py:365-401, with both scores computed (emb: the embedding score,
\* self after it and its encode calls).
AssignBlend(text_segment, concept, keyword_score, emb) ==
    AssignThreshold(emb.self, text_segment, concept, keyword_score, emb.ret,
                    CombinedScore(emb.self, keyword_score, emb.ret), emb.encode_calls)

\* concept_assignment.py:317-401
assign_concept(self, text_segment, concept, be) ==
    IF _check_exclusion_criteria(text_segment.text, concept)
    THEN [ret |-> None, self |-> self, keyword_score |-> 0,
          embedding_score |-> 0, combined_score |-> 0, encode_calls |-> <<>>]
    ELSE AssignBlend(text_segment, concept,
                     KeywordScore(text_segment.text, concept),
                     IF self.use_embeddings
                     THEN _embedding_similarity_score(self, text_segment.text, concept, be)
                     ELSE [ret |-> 0, self |-> self, encode_calls |-> <<>>])

\* concept_definitions.py:140-144
get_concept_by_id(concept_id) ==
    IF concept_id \notin DOMAIN CONCEPTS
    THEN [raised |-> TRUE, ret |-> <<>>]
    ELSE [raised |-> FALSE, ret |-> CONCEPTS[concept_id]]

RECURSIVE AssignLoop(_, _, _, _, _, _, _)
RECURSIVE AssignAppend(_, _, _, _, _, _, _)

\* concept_assignment.py:420-421: the instance, if any, is appended; on to the next pair.
AssignAppend(r, text_segments, concepts, k, instances, encode_calls, be) ==
    AssignLoop(r.self, text_segments, concepts, k + 1,
               IF r.ret # None THEN Append(instances, r.ret) ELSE instances,
               encode_calls \o r.encode_calls, be)

\* concept_assignment.py:417-423: the two nested loops, k counting the pairs done.
AssignLoop(self, text_segments, concepts, k, instances, encode_calls, be) ==
    IF k >= Len(text_segments) * Len(concepts)
    THEN [raised |-> FALSE, ret |-> instances, self |-> self,
          encode_calls |-> encode_calls]
    ELSE AssignAppend(assign_concept(self, text_segments[(k \div Len(concepts)) + 1],
                                     concepts[(k % Len(concepts)) + 1], be),
                      text_segments, concepts, k, instances, encode_calls, be)

\* A variant of assign_all_concepts that looks an id up when its turn comes: the pairs
\* of the ids before the first unregistered one are scored before the error.
assign_concepts_lazily(self, text_segments, concept_ids, be) ==
    IF \E i \in DOMAIN concept_ids : get_concept_by_id(concept_ids[i]).raised
    THEN [ AssignLoop(self, text_segments,
                      [i \in 1..((CHOOSE j \in DOMAIN concept_ids :
                                    /\ get_concept_by_id(concept_ids[j]).raised
                                    /\ \A h \in 1..(j - 1) :
                                         ~get_concept_by_id(concept_ids[h]).raised) - 1)
                         |-> get_concept_by_id(concept_ids[i]).ret],
                      0, <<>>, <<>>, be)
           EXCEPT !.raised = TRUE, !.ret = <<>> ]
    ELSE AssignLoop(self, text_segments,
                    [i \in DOMAIN concept_ids |-> get_concept_by_id(concept_ids[i]).ret],
                    0, <<>>, <<>>, be)

\* concept_assignment.py:403-423
assign_all_concepts(self, text_segments, concept_ids, be) ==
    IF \E i \in DOMAIN concept_ids : get_concept_by_id(concept_ids[i]).raised
    THEN [raised |-> TRUE, ret |-> <<>>, self |-> self, encode_calls |-> <<>>]
    ELSE AssignLoop(self, text_segments,
                    [i \in DOMAIN concept_ids |-> get_concept_by_id(concept_ids[i]).ret],
                    0, <<>>, <<>>, be)

\* concept_assignment.py:459-489
assign_concepts_to_segments(text_segments, concept_ids, kwargs, available, be) ==
    assign_all_concepts(
        ConceptAssignerInit(
            [ min_confidence |-> Arg(kwargs, "min_confidence", HelperDefaultMinConfidence),
              use_embeddings |-> Arg(kwargs, "use_embeddings", TRUE) ],
            available, be),
        text_segments, concept_ids, be)

\* ------------------------------------------------------------------ inputs

\* The constructor calls of the model: ConceptAssigner(), min_confidence=0.15 as in the
\* docstring of assign_concept, keyword-only, and weights that do not sum to 1.
CtorArgs ==
    { <<>>,
      [min_confidence |-> 150],
      [min_confidence |-> 150, use_embeddings |-> FALSE],
      [keyword_weight |-> 1000, embedding_weight |-> 1000, min_confidence |-> 150] }

\* The keyword arguments assign_concepts_to_segments is called with.
HelperArgs == { <<>>, [use_embeddings |-> FALSE] }

\* The embedding backends: one that works, one whose encode raises on one text, one that
\* cannot be loaded.  A backend is fixed for the whole run.
Backends ==
    { [loads |-> TRUE, failing |-> {}],
      [loads |-> TRUE, failing |-> {SegText2}],
      [loads |-> FALSE, failing |-> {}] }

NoBackend == [loads |-> FALSE, failing |-> {}]

\* The concepts assign_concept is called with.
CallConcepts == {IncomeWealthInequality, ExampleConcept}

RECURSIVE SeqsUpTo(_, _)
\* The sequences of distinct elements of S of length at most n: the segments of a
\* batch are rows of one segment table, each with its own id.
SeqsUpTo(S, n) ==
    IF n = 0 THEN {<<>>}
    ELSE LET shorter == SeqsUpTo(S, n - 1)
         IN  shorter \cup UNION {{Append(q, x) : x \in S \ Range(q)} : q \in shorter}

SegLists == SeqsUpTo(Segments, MaxSegs)

\* The concept id lists of a batch: the registered id, the same id twice, and a list
\* that names an unregistered id after the registered one.
CidLists ==
    { <<"income_wealth_inequality">>,
      <<"income_wealth_inequality", "income_wealth_inequality">>,
      <<"income_wealth_inequality", "no_such_concept">> }

NoCall == [op |-> "none"]

NoArg == [text |-> "", concept |-> NoSeedConcept]

\* ----------------------------------------------------------------- actions

Init ==
    /\ EMBEDDINGS_AVAILABLE \in BOOLEAN
    /\ backend \in (IF EMBEDDINGS_AVAILABLE THEN Backends ELSE {NoBackend})
    /\ ctor \in CtorArgs
    /\ assigner = ConceptAssignerInit(ctor, EMBEDDINGS_AVAILABLE, backend)
    /\ arg = NoArg
    /\ last = NoCall

\* The assigner and the record of the call after assign_concept has returned r.
AssignConceptDone(text_segment, concept, r) ==
    /\ assigner' = r.self
    /\ last' = [ op |-> "assign_concept",
                 text_segment |-> text_segment,
                 concept_id |-> concept.id,
                 keyword_score |-> r.keyword_score,
                 embedding_score |-> r.embedding_score,
                 combined_score |-> r.combined_score,
                 encode_calls |-> r.encode_calls,
                 ret |-> r.ret ]

\* assigner.assign_concept(text_segment, concept)
AssignConcept ==
    \E text_segment \in Segments, concept \in CallConcepts :
        /\ AssignConceptDone(text_segment, concept,
                             assign_concept(assigner, text_segment, concept, backend))
        /\ UNCHANGED <<EMBEDDINGS_AVAILABLE, backend, ctor, arg>>

\* The record of a batch call that has returned r (or raised).
BatchCall(op, text_segments, concept_ids, kwargs, r) ==
    [ op |-> op,
      text_segments |-> text_segments,
      concept_ids |-> concept_ids,
      kwargs |-> kwargs,
      self |-> r.self,
      encode_calls |-> r.encode_calls,
      raised |-> r.raised,
      ret |-> r.ret ]

AssignAllConceptsDone(text_segments, concept_ids, r) ==
    /\ assigner' = r.self
    /\ last' = BatchCall("assign_all_concepts", text_segments, concept_ids, <<>>, r)

\* assigner.assign_all_concepts(text_segments, concept_ids)
AssignAllConcepts ==
    \E text_segments \in SegLists, concept_ids \in CidLists :
        /\ AssignAllConceptsDone(text_segments, concept_ids,
                assign_all_concepts(assigner, text_segments, concept_ids, backend))
        /\ UNCHANGED <<EMBEDDINGS_AVAILABLE, backend, ctor, arg>>

\* assign_concepts_to_segments(text_segments, concept_ids, **kwargs): the assigner it
\* builds is local to the call (self in the record of the call).
AssignConceptsToSegments ==
    \E text_segments \in SegLists, concept_ids \in CidLists, kwargs \in HelperArgs :
        /\ last' = BatchCall("assign_concepts_to_segments", text_segments, concept_ids,
                             kwargs,
                             assign_concepts_to_segments(text_segments, concept_ids, kwargs,
                                                         EMBEDDINGS_AVAILABLE, backend))
        /\ UNCHANGED <<EMBEDDINGS_AVAILABLE, backend, assigner, ctor, arg>>

Next ==
    \/ AssignConcept
    \/ AssignAllConcepts
    \/ AssignConceptsToSegments

Spec == Init /\ [][Next]_vars

\* ------------------------------------------------- the two scores on their own
\* _keyword_match_score and _embedding_similarity_score called directly on a text and a
\* concept, as diagnose_assignment.py calls them.

Alphabet == {"a", "B", " ", "%"}

RECURSIVE TextsUpTo(_)
\* The texts over Alphabet of length at most n.
TextsUpTo(n) ==
    IF n = 0 THEN {""}
    ELSE LET shorter == TextsUpTo(n - 1)
         IN  shorter \cup {t \o ch : t \in shorter, ch \in Alphabet}

SegText4 == "Top 1% earners"

SegText5 == "The wage gap and income gap: poverty!"

ScoreArgs ==
    [text : TextsUpTo(MaxTextLen), concept : {NoSeedConcept, LetterConcept, TenTermConcept}]
    \cup [text : {SegText1, SegText2, SegText3, SegText4, SegText5}, concept : AllConcepts]

ScoreInit ==
    /\ EMBEDDINGS_AVAILABLE = TRUE
    /\ backend = [loads |-> TRUE, failing |-> {}]
    /\ ctor = <<>>
    /\ assigner = ConceptAssignerInit(ctor, EMBEDDINGS_AVAILABLE, backend)
    /\ arg \in ScoreArgs
    /\ last = NoCall

\* The record of a keyword score call: the locals of concept_assignment.py:145-217,
\* whether the boost branch was taken, and the value returned (base_score is 0 where the
\* code returns before computing it).
KeywordCall(text, concept, phrase_matches, word_matches, matches) ==
    [ op |-> "_keyword_match_score",
      text |-> text,
      concept_id |-> concept.id,
      total_terms |-> Len(concept.seed_terms),
      phrase_matches |-> phrase_matches,
      word_matches |-> word_matches,
      matches |-> matches,
      base_score |-> IF matches = 0 THEN 0 ELSE BaseScore(matches),
      boosted |-> matches # 0 /\ HighMatchRatio(matches, Len(concept.seed_terms)),
      ret |-> _keyword_match_score(text, concept) ]

KeywordCallOfWords(text, concept, normalized_text, words) ==
    KeywordCall(text, concept,
                PhraseMatches(concept.seed_terms, normalized_text, words),
                WordMatches(concept.seed_terms, normalized_text, words),
                EffectiveMatches(PhraseMatches(concept.seed_terms, normalized_text, words),
                                 WordMatches(concept.seed_terms, normalized_text, words)))

\* assigner._keyword_match_score(text, concept)
KeywordMatchScore ==
    /\ last' = KeywordCallOfWords(arg.text, arg.concept,
                                  _normalize_text_for_keywords(arg.text),
                                  Range(split(_normalize_text_for_keywords(arg.text))))
    /\ UNCHANGED <<EMBEDDINGS_AVAILABLE, backend, assigner, ctor, arg>>

EmbeddingSimilarityScoreDone(text, concept, r) ==
    /\ assigner' = r.self
    /\ last' = [ op |-> "_embedding_similarity_score",
                 text |-> text,
                 concept_id |-> concept.id,
                 encode_calls |-> r.encode_calls,
                 ret |-> r.ret ]

\* assigner._embedding_similarity_score(text, concept)
EmbeddingSimilarityScore ==
    /\ EmbeddingSimilarityScoreDone(arg.text, arg.concept,
            _embedding_similarity_score(assigner, arg.text, arg.concept, backend))
    /\ UNCHANGED <<EMBEDDINGS_AVAILABLE, backend, ctor, arg>>

ScoreNext ==
    \/ KeywordMatchScore
    \/ EmbeddingSimilarityScore

ScoreSpec == ScoreInit /\ [][ScoreNext]_vars

\* -------------------------------------------------------- canonicalization

DefaultMinSegmentLength == 100

DefaultMaxSegmentLength == 2000

\* s[i] of a Python str.
Char(s, i) == SubSeq(s, i, i)

\* s[a-1:b] of a Python str, empty when a > b.
Piece(s, a, b) == IF a > b THEN "" ELSE SubSeq(s, a, b)

\* The largest element of a non-empty set of integers.
SetMax(S) == CHOOSE x \in S : \A y \in S : y <= x

\* The smallest element of a non-empty set of integers.
SetMin(S) == CHOOSE x \in S : \A y \in S : x <= y

\* re.sub(r' +', ' ', text): a space that follows a space is dropped.
CollapseSpaces(s) ==
    ConcatAll([i \in 1..Len(s) |->
                  IF Char(s, i) = " " /\ i > 1 /\ Char(s, i - 1) = " " THEN "" ELSE Char(s, i)],
              1, Len(s))

RECURSIVE WhitespaceRunEnd(_, _)
\* The index of the last character of the whitespace run that starts at i (i - 1 when
\* s[i] is no whitespace).
WhitespaceRunEnd(s, i) ==
    IF i <= Len(s) /\ Char(s, i) \in Whitespace THEN WhitespaceRunEnd(s, i + 1) ELSE i - 1

RECURSIVE WhitespaceRunStart(_, _)
\* The index of the first character of the whitespace run that ends at i (i + 1 when
\* s[i] is no whitespace).
WhitespaceRunStart(s, i) ==
    IF i >= 1 /\ Char(s, i) \in Whitespace THEN WhitespaceRunStart(s, i - 1) ELSE i + 1

\* A newline stands before s[i] in the whitespace run of s[i].
NewlineBefore(s, i) == \E j \in WhitespaceRunStart(s, i)..(i - 1) : Char(s, j) = "\n"

\* A newline stands after s[i] in the whitespace run of s[i].
NewlineAfter(s, i) == \E j \in (i + 1)..WhitespaceRunEnd(s, i) : Char(s, j) = "\n"

\* re.sub(r'\n\s*\n+', '\n\n', text), what s[i] becomes.  A match starts at the first
\* newline of a whitespace run and, \s* being greedy, ends at the last newline of the
\* run, if that is another one: the first newline becomes the two, the characters up
\* to the last newline vanish, the rest of the run stays.
ParagraphBreakAt(s, i) ==
    IF Char(s, i) \notin Whitespace THEN Char(s, i)
    ELSE IF Char(s, i) = "\n" /\ ~NewlineBefore(s, i)
    THEN IF NewlineAfter(s, i) THEN "\n\n" ELSE "\n"
    ELSE IF NewlineBefore(s, i) /\ (Char(s, i) = "\n" \/ NewlineAfter(s, i)) THEN ""
    ELSE Char(s, i)

\* re.sub(r'\n\s*\n+', '\n\n', text)
ParagraphBreaks(s) == ConcatAll([i \in 1..Len(s) |-> ParagraphBreakAt(s, i)], 1, Len(s))

\* The indices of the characters of s that are no whitespace.
InkOf(s) == {i \in 1..Len(s) : Char(s, i) \notin Whitespace}

\* str.strip()
strip(s) == IF InkOf(s) = {} THEN "" ELSE SubSeq(s, SetMin(InkOf(s)), SetMax(InkOf(s)))

\* canonicalization.py:56-64
normalize_whitespace(text) == strip(ParagraphBreaks(CollapseSpaces(text)))

\* The pieces of s left when the stretches s[starts[k]..ends[k]] are cut out
\* (starts ascending, the stretches apart).
PiecesBetween(s, starts, ends) ==
    [k \in 1..(Len(starts) + 1) |->
        Piece(s, IF k = 1 THEN 1 ELSE ends[k - 1] + 1,
                 IF k = Len(starts) + 1 THEN Len(s) ELSE starts[k] - 1)]

RECURSIVE SeparatorAt(_, _, _)
\* str.split(sep) finds a separator at i: sep stands there and no separator found
\* further left overlaps it.
SeparatorAt(s, sep, i) ==
    /\ i + Len(sep) - 1 <= Len(s)
    /\ SubSeq(s, i, i + Len(sep) - 1) = sep
    /\ \A j \in Max(1, i - Len(sep) + 1)..(i - 1) : ~SeparatorAt(s, sep, j)

\* text.split(sep), with the places of the separators found.
SplitAt(s, sep, starts) ==
    PiecesBetween(s, starts, [k \in DOMAIN starts |-> starts[k] + Len(sep) - 1])

\* text.split(sep)
SplitOn(s, sep) == SplitAt(s, sep, Ascending({i \in 1..Len(s) : SeparatorAt(s, sep, i)}))

SentenceEnd == {".", "!", "?"}

\* re.split(r'(?<=[.!?])\s+', para), with the places where a whitespace run follows a
\* sentence end.
SentencesAt(s, starts) ==
    PiecesBetween(s, starts, [k \in DOMAIN starts |-> WhitespaceRunEnd(s, starts[k])])

\* re.split(r'(?<=[.!?])\s+', para)
Sentences(s) ==
    SentencesAt(s, Ascending({i \in 2..Len(s) :
                    Char(s, i) \in Whitespace /\ Char(s, i - 1) \in SentenceEnd}))

\* hashlib.md5(key).hexdigest(): a digest is modelled by the key it is the digest of
\* (no two keys of a run collide).
md5(key) == "md5(" \o key \o ")"

\* canonicalization.py:141-144
_generate_segment_id(document_id, paragraph_idx, segment_idx) ==
    md5(document_id \o ":para_" \o ToString(paragraph_idx) \o ":seg_" \o ToString(segment_idx))

\* canonicalization.py:45-54, TextCanonicalizer.__init__
TextCanonicalizerInit(kwargs) ==
    [ min_segment_length |-> Arg(kwargs, "min_segment_length", DefaultMinSegmentLength),
      max_segment_length |-> Arg(kwargs, "max_segment_length", DefaultMaxSegmentLength) ]

\* canonicalization.py:102-109, 120-127, 130-137: a segment is appended at position
\* len(segments).
AppendSegment(segments, document_id, idx, text, method) ==
    Append(segments,
           [ id |-> _generate_segment_id(document_id, idx, Len(segments)),
             document_id |-> document_id,
             text |-> text,
             position |-> Len(segments),
             metadata |-> [segmentation_method |-> method] ])

\* canonicalization.py:100-109, 118-127: a chunk is kept if it is long enough.
AppendChunk(self, segments, document_id, idx, chunk_text) ==
    IF Len(chunk_text) >= self.min_segment_length
    THEN AppendSegment(segments, document_id, idx, chunk_text, "paragraph_split")
    ELSE segments

RECURSIVE ChunkLoop(_, _, _, _, _, _, _, _)
RECURSIVE ChunkStep(_, _, _, _, _, _, _, _, _)

\* canonicalization.py:94-114: one sentence, stripped, of a paragraph that is too long.
ChunkStep(self, document_id, idx, sentences, k, current_chunk, current_length, segments, sentence) ==
    IF sentence = ""
    THEN ChunkLoop(self, document_id, idx, sentences, k + 1, current_chunk,
                   current_length, segments)
    ELSE IF current_length + Len(sentence) > self.max_segment_length /\ Len(current_chunk) > 0
    THEN ChunkLoop(self, document_id, idx, sentences, k + 1, <<sentence>>, Len(sentence),
                   AppendChunk(self, segments, document_id, idx, join(" ", current_chunk)))
    ELSE ChunkLoop(self, document_id, idx, sentences, k + 1,
                   Append(current_chunk, sentence), current_length + Len(sentence),
                   segments)

\* canonicalization.py:90-127: the sentences of a paragraph are grouped into chunks.
ChunkLoop(self, document_id, idx, sentences, k, current_chunk, current_length, segments) ==
    IF k > Len(sentences)
    THEN IF Len(current_chunk) > 0
         THEN AppendChunk(self, segments, document_id, idx, join(" ", current_chunk))
         ELSE segments
    ELSE ChunkStep(self, document_id, idx, sentences, k, current_chunk, current_length,
                   segments, strip(sentences[k]))

RECURSIVE ParagraphLoop(_, _, _, _, _)

\* canonicalization.py:80-137: one paragraph, stripped; idx counts from 0.
ParagraphStep(self, document_id, paragraphs, idx, segments, para) ==
    IF Len(para) < self.min_segment_length
    THEN ParagraphLoop(self, document_id, paragraphs, idx + 1, segments)
    ELSE IF Len(para) > self.max_segment_length
    THEN ParagraphLoop(self, document_id, paragraphs, idx + 1,
                       ChunkLoop(self, document_id, idx, Sentences(para), 1,
                                 <<>>, 0, segments))
    ELSE ParagraphLoop(self, document_id, paragraphs, idx + 1,
                       AppendSegment(segments, document_id, idx, para, "paragraph"))

\* canonicalization.py:78-139
ParagraphLoop(self, document_id, paragraphs, idx, segments) ==
    IF idx >= Len(paragraphs) THEN segments
    ELSE ParagraphStep(self, document_id, paragraphs, idx, segments,
                       strip(paragraphs[idx + 1]))

\* canonicalization.py:66-139
segment_by_paragraphs(self, text, document_id) ==
    ParagraphLoop(self, document_id, SplitOn(normalize_whitespace(text), "\n\n"), 0, <<>>)

\* canonicalization.py:146-152
canonicalize_document(self, document_id, raw_text) ==
    segment_by_paragraphs(self, raw_text, document_id)

RECURSIVE CanonicalizeRows(_, _, _, _)
\* concept_assignment.py:448-453: the loop over the rows of the document table.
CanonicalizeRows(canonicalizer, df, k, all_segments) ==
    IF k > Len(df) THEN all_segments
    ELSE CanonicalizeRows(canonicalizer, df, k + 1,
            all_segments \o canonicalize_document(canonicalizer, df[k].id, df[k].raw_text))

\* concept_assignment.py:442-456
canonicalize_documents(df) == CanonicalizeRows(TextCanonicalizerInit(<<>>), df, 1, <<>>)

\* ------------------------------------------------------- the top-level run

RunDefaultMinConfidence == 150

\* The ids of CONCEPTS in the order of the dictionary, concept_definitions.py:50-137.
ConceptOrder == <<"income_wealth_inequality">>

\* Rows of documents.parquet (the columns the pipeline reads).
Doc1 == [id |-> "doc1", source_id |-> "npr", raw_text |-> Para1 \o "\n\n" \o Para3 \o "\n \n\n" \o Para2 \o "\n"]

Doc2 == [id |-> "doc2", source_id |-> "bbc", raw_text |-> "  " \o Para4]

Doc3 == [id |-> "doc3", source_id |-> "bbc", raw_text |-> Para3]

\* concept_assignment.py:632-641: the concept ids of the run.  An Optional list is None
\* or <<list>>.
ResolveConceptIds(concept_ids, use_all_concepts) ==
    IF use_all_concepts \/ concept_ids = None
    THEN ConceptOrder
    ELSE SelectSeq(concept_ids[1], LAMBDA cid : cid \in DOMAIN CONCEPTS)

\* A run that raised; loaded tells whether the documents had been read.
RunRaised(error, concept_ids, loaded) ==
    [ raised |-> TRUE, error |-> error, concept_ids |-> concept_ids, loaded |-> loaded,
      text_segments |-> <<>>, encode_calls |-> <<>>, ret |-> <<>>, saved |-> None ]

\* The row save_concept_instances writes for an instance; document_id is None, or
\* <<id>> for the document id of the segment found.
InstanceRow(instance, found) ==
    [ concept_id |-> instance.concept_id,
      text_segment_id |-> instance.text_segment_id,
      document_id |-> IF found = {} THEN None
                      ELSE <<(CHOOSE seg \in found : TRUE).document_id>>,
      confidence |-> instance.confidence,
      assignment_method |-> instance.assignment_method,
      keyword_score |-> instance.metadata.keyword_score,
      embedding_score |-> instance.metadata.embedding_score,
      text_length |-> instance.metadata.text_length,
      text_preview |-> instance.metadata.text_preview ]

\* segment_lookup.get(segment_id) for segment_lookup = {seg.id: seg for seg in
\* text_segments}: the last segment of that id, as a set of at most one segment.
SegmentLookup(text_segments, segment_id) ==
    {text_segments[k] : k \in {k \in DOMAIN text_segments :
        /\ text_segments[k].id = segment_id
        /\ \A h \in DOMAIN text_segments : text_segments[h].id = segment_id => h <= k}}

\* concept_assignment.py:573-606: the rows written to concept_instances.parquet.
save_concept_instances(instances, text_segments) ==
    [i \in DOMAIN instances |->
        InstanceRow(instances[i], SegmentLookup(text_segments, instances[i].text_segment_id))]

\* concept_assignment.py:662-673: nothing is saved for an empty result.
RunSave(concept_ids, text_segments, r) ==
    [ raised |-> r.raised,
      error |-> IF r.raised THEN "ValueError" ELSE "",
      concept_ids |-> concept_ids,
      loaded |-> TRUE,
      text_segments |-> text_segments,
      encode_calls |-> r.encode_calls,
      ret |-> r.ret,
      saved |-> IF r.raised \/ Len(r.ret) = 0
                THEN None
                ELSE <<save_concept_instances(r.ret, text_segments)>> ]

\* concept_assignment.py:652-673
RunAssign(concept_ids, text_segments, min_confidence, available, be) ==
    IF Len(text_segments) = 0
    THEN RunRaised("ValueError", concept_ids, TRUE)
    ELSE RunSave(concept_ids, text_segments,
                 assign_concepts_to_segments(text_segments, concept_ids,
                                             [min_confidence |-> min_confidence],
                                             available, be))

\* concept_assignment.py:643-673, with the concept ids of the run resolved.  The file
\* at documents_path is None (there is no such file) or <<rows>>.
RunResolved(documents_file, concept_ids, min_confidence, available, be) ==
    IF Len(concept_ids) = 0
    THEN RunRaised("ValueError", concept_ids, FALSE)
    ELSE IF documents_file = None
    THEN RunRaised("FileNotFoundError", concept_ids, FALSE)
    ELSE RunAssign(concept_ids, canonicalize_documents(documents_file[1]),
                   min_confidence, available, be)

\* concept_assignment.py:609-673
run_concept_assignment(documents_file, kwargs, available, be) ==
    RunResolved(documents_file,
                ResolveConceptIds(Arg(kwargs, "concept_ids", None),
                                  Arg(kwargs, "use_all_concepts", TRUE)),
                Arg(kwargs, "min_confidence", RunDefaultMinConfidence),
                available, be)

\* The files at documents_path.
DocFiles == {None, << <<Doc1, Doc2, Doc3>> >>, << <<Doc2>> >>, << <<Doc3>> >>}

\* The concept_ids arguments: None, the empty list, and lists of the registered id and
\* of an unregistered one.
RunConceptIds ==
    { None, << <<>> >>,
      << <<"income_wealth_inequality">> >>,
      << <<"no_such_concept">> >>,
      << <<"income_wealth_inequality", "no_such_concept">> >>,
      << <<"no_such_concept", "income_wealth_inequality">> >> }

\* The keyword arguments of a run: each of concept_ids, use_all_concepts and
\* min_confidence is given or left to its default.
RunKwargs ==
    UNION { { [concept_ids |-> c, use_all_concepts |-> u],
              [concept_ids |-> c],
              [concept_ids |-> c, use_all_concepts |-> u, min_confidence |-> 500] } :
            c \in RunConceptIds, u \in BOOLEAN }
    \cup { <<>>, [use_all_concepts |-> FALSE] }

RunArgs == [documents_file : DocFiles, kwargs : RunKwargs]

\* No assigner exists before the run builds its own.
RunInit ==
    /\ EMBEDDINGS_AVAILABLE \in BOOLEAN
    /\ backend \in (IF EMBEDDINGS_AVAILABLE
                    THEN {[loads |-> TRUE, failing |-> {}], [loads |-> FALSE, failing |-> {}]}
                    ELSE {NoBackend})
    /\ ctor = <<>>
    /\ assigner = None
    /\ arg \in RunArgs
    /\ last = NoCall

\* The record of a run that has returned or raised r.
RunCall(documents_file, kwargs, r) ==
    [ op |-> "run_concept_assignment",
      documents_file |-> documents_file,
      kwargs |-> kwargs,
      raised |-> r.raised,
      error |-> r.error,
      concept_ids |-> r.concept_ids,
      loaded |-> r.loaded,
      text_segments |-> r.text_segments,
      encode_calls |-> r.encode_calls,
      ret |-> r.ret,
      saved |-> r.saved ]

\* run_concept_assignment(documents_path, output_path, **kwargs)
RunConceptAssignment ==
    /\ last' = RunCall(arg.documents_file, arg.kwargs,
                       run_concept_assignment(arg.documents_file, arg.kwargs,
                                              EMBEDDINGS_AVAILABLE, backend))
    /\ UNCHANGED <<EMBEDDINGS_AVAILABLE, backend, assigner, ctor, arg>>

RunNext == RunConceptAssignment

RunSpec == RunInit /\ [][RunNext]_vars

\* ------------------------------------------------------------- properties

BatchOps == {"assign_all_concepts", "assign_concepts_to_segments"}

\* The assigner as the constructor call of the run built it: nothing cached.
FreshAssigner == ConceptAssignerInit(ctor, EMBEDDINGS_AVAILABLE, backend)

\* What a caller sees of one assignment: no instance, or (confidence, method).
Outcome(ret) == IF ret = None THEN None ELSE <<ret.confidence, ret.assignment_method>>

\* C1: assign_concept returns None exactly when the combined score is strictly below
\* min_confidence; otherwise (equality included) it returns an instance whose confidence
\* is the combined score and whose metadata carries the keyword score and the embedding
\* score (None in keyword-only mode).  Hence every instance emitted by assign_concept or
\* by a batch has a confidence of at least the min_confidence of its assigner.
ThresholdDecidesEmission ==
    /\ last.op = "assign_concept" =>
        /\ (last.ret = None) <=> (last.combined_score < assigner.min_confidence)
        /\ last.ret # None =>
            /\ last.ret.confidence = last.combined_score
            /\ last.ret.confidence >= assigner.min_confidence
            /\ last.ret.metadata.keyword_score = last.keyword_score
            /\ last.ret.metadata.embedding_score =
                 (IF assigner.use_embeddings THEN <<last.embedding_score>> ELSE None)
    /\ last.op \in BatchOps =>
        \A i \in DOMAIN last.ret : last.ret[i].confidence >= last.self.min_confidence

\* A pair whose combined score equals min_confidence has been assigned: an instance.
EmittedAtThreshold ==
    /\ last.op = "assign_concept"
    /\ last.combined_score = assigner.min_confidence
    /\ last.ret # None
    /\ last.ret.confidence = assigner.min_confidence

CombinedInUnitInterval ==
    last.op = "assign_concept" =>
        /\ 0 <= last.combined_score
        /\ last.combined_score <= Scale
        /\ last.ret # None => (0 <= last.ret.confidence /\ last.ret.confidence <= Scale)

\* C4: the keyword score is in [0,1]: 0 with no seed terms or no match, never above 1
\* for any number of matches (with 4 or more the base is 0.8 + min(0.2, (matches-4)*0.05));
\* the embedding score is in [0,1], a negative cosine being replaced by 0.
ScoresInUnitInterval ==
    /\ last.op = "_keyword_match_score" =>
        /\ 0 <= last.ret /\ last.ret <= Scale
        /\ (last.total_terms = 0 \/ last.matches = 0) => last.ret = 0
        /\ last.matches >= 4 * Scale =>
             last.base_score = 800 + Min(200, ((last.matches - 4 * Scale) * 50) \div Scale)
    /\ last.op = "_embedding_similarity_score" =>
        /\ 0 <= last.ret /\ last.ret <= Scale
        /\ Dot(Encode(last.text), Encode(ConceptText(ConceptOf(last.concept_id)))) < 0
             => last.ret = 0

\* A keyword score with more than four matches, whose base score and boost exceed 1,
\* has been returned as 1.
CappedKeywordScore ==
    /\ last.op = "_keyword_match_score"
    /\ last.matches > 4 * Scale
    /\ last.boosted
    /\ last.base_score + 100 > Scale
    /\ last.ret = Scale

\* C5: with the configuration and the backend of the run fixed, assign_concept on a
\* (segment, concept) pair gives, after any calls made before it (the embedding cache
\* empty or filled), the outcome the freshly constructed assigner gives: the same
\* (confidence, assignment_method), or no instance.
AssignIsDeterministic ==
    last.op = "assign_concept" =>
        Outcome(last.ret) =
            Outcome(assign_concept(FreshAssigner, last.text_segment,
                                   ConceptOf(last.concept_id), backend).ret)

\* A pair has been assigned from a filled cache: only the segment text was encoded.
AssignedFromCache ==
    /\ last.op = "assign_concept"
    /\ assigner.use_embeddings
    /\ last.encode_calls = <<last.text_segment.text>>
    /\ last.concept_id \in DOMAIN assigner.cache
    /\ last.ret # None

\* The thresholds at which a batch is run again.
Thresholds == {0, 150, 420, 421, 500, 976, 1000}

\* The (segment, concept) pairs of a result, each with its confidence.
PairsOf(instances) ==
    {<<instances[i].text_segment_id, instances[i].concept_id, instances[i].confidence>> :
        i \in DOMAIN instances}

\* The batch of the last call run again by the same assigner with min_confidence m.
RunAt(m) ==
    assign_all_concepts([assigner EXCEPT !.min_confidence = m],
                        last.text_segments, last.concept_ids, backend).ret

\* C6: for the segments and concepts of a batch, with m1 <= m2 the pairs returned with
\* min_confidence m2 are among the pairs returned with m1, with the same confidences;
\* the result the batch returned is the one of its own threshold.
ThresholdMonotonicity ==
    (last.op = "assign_all_concepts" /\ ~last.raised) =>
        /\ PairsOf(last.ret) = PairsOf(RunAt(assigner.min_confidence))
        /\ \A m1, m2 \in Thresholds \cup {assigner.min_confidence} :
             m1 <= m2 => PairsOf(RunAt(m2)) \subseteq PairsOf(RunAt(m1))

\* A batch has returned two pairs of which a higher threshold keeps exactly one.
ThresholdShrinksResult ==
    /\ last.op = "assign_all_concepts"
    /\ ~last.raised
    /\ Cardinality(PairsOf(last.ret)) = 2
    /\ assigner.min_confidence < 500
    /\ Cardinality(PairsOf(RunAt(500))) = 1

\* The constructor call asks for keyword-only mode, or the backend is not installed,
\* or the model fails to load.
KeywordOnlyConstruction ==
    \/ ~Arg(ctor, "use_embeddings", TRUE)
    \/ ~EMBEDDINGS_AVAILABLE
    \/ ~backend.loads

\* C7: an assigner built with use_embeddings=False, or whose backend is unavailable or
\* fails to load, is in keyword-only mode; in that mode assign_concept encodes nothing,
\* its confidence is the keyword score, its method is 'keyword' and the metadata
\* embedding_score is None; and no step brings the assigner back to hybrid scoring.
KeywordOnlyIsPermanent ==
    /\ [](KeywordOnlyConstruction => ~assigner.use_embeddings)
    /\ []((~assigner.use_embeddings /\ last.op = "assign_concept") =>
            /\ last.combined_score = last.keyword_score
            /\ last.encode_calls = <<>>
            /\ last.ret # None =>
                /\ last.ret.confidence = last.keyword_score
                /\ last.ret.assignment_method = "keyword"
                /\ last.ret.metadata.embedding_score = None)
    /\ [][~assigner.use_embeddings => ~assigner'.use_embeddings]_vars

\* An assigner whose model failed to load has emitted a keyword instance.
KeywordInstanceAfterLoadFailure ==
    /\ EMBEDDINGS_AVAILABLE
    /\ ~backend.loads
    /\ Arg(ctor, "use_embeddings", TRUE)
    /\ last.op = "assign_concept"
    /\ last.ret # None
    /\ last.ret.assignment_method = "keyword"

\* C8: an assigner constructed without an explicit min_confidence emits an instance
\* for exactly the pairs whose combined score is at least 0.15.
DefaultThresholdIsHelperDefault ==
    (last.op = "assign_concept" /\ "min_confidence" \notin DOMAIN ctor) =>
        (last.ret # None <=> last.combined_score >= 150)

\* The instances a result holds for the pair of segment k and concept c.
InstancesOf(instances, text_segment, concept_id) ==
    {i \in DOMAIN instances :
        /\ instances[i].text_segment_id = text_segment.id
        /\ instances[i].concept_id = concept_id}

\* C9: a batch over known concept ids returns exactly one instance for each (segment,
\* concept) pair that assign_concept in isolation gives an instance for, and none for
\* any other pair: no pair occurs twice in the result.
OneInstancePerPair ==
    (last.op = "assign_all_concepts" /\ ~last.raised) =>
        \A k \in DOMAIN last.text_segments, c \in Range(last.concept_ids) :
            Cardinality(InstancesOf(last.ret, last.text_segments[k], c)) =
                (IF assign_concept(FreshAssigner, last.text_segments[k],
                                   ConceptOf(c), backend).ret # None
                 THEN 1 ELSE 0)

\* Some id of the list is not registered.
HasUnknownId(concept_ids) ==
    \E i \in DOMAIN concept_ids : concept_ids[i] \notin DOMAIN CONCEPTS

\* C10: a batch whose concept_ids hold an unregistered id raises before any pair is
\* scored: nothing is returned, no text is encoded and the cache of the assigner is as
\* it was before the call.
UnknownIdFailsBatchFirst ==
    [][(last'.op \in BatchOps /\ HasUnknownId(last'.concept_ids)) =>
        /\ last'.raised
        /\ last'.ret = <<>>
        /\ last'.encode_calls = <<>>
        /\ assigner' = assigner
        /\ last'.op = "assign_all_concepts" => last'.self = assigner
        /\ last'.op = "assign_concepts_to_segments" => last'.self.cache = NoCache]_vars

\* A batch of a hybrid assigner over segments, with an unregistered id after the
\* registered one, has raised.
BatchRaisedOnUnknownId ==
    /\ last.op = "assign_all_concepts"
    /\ last.raised
    /\ assigner.use_embeddings
    /\ Len(last.text_segments) > 0
    /\ last.concept_ids[1] \in DOMAIN CONCEPTS
    /\ HasUnknownId(last.concept_ids)

\* The concept_ids argument of the run, given and holding an unregistered id.
RequestsUnknownId(kwargs) ==
    /\ "concept_ids" \in DOMAIN kwargs
    /\ kwargs.concept_ids # None
    /\ HasUnknownId(kwargs.concept_ids[1])

\* C11: a run whose concept_ids hold an unregistered id raises ValueError before the
\* documents are loaded, whatever use_all_concepts is; so does a run for which no
\* registered concept id is left.
UnknownIdFailsRun ==
    last.op = "run_concept_assignment" =>
        /\ RequestsUnknownId(last.kwargs) =>
              (last.raised /\ last.error = "ValueError" /\ ~last.loaded)
        /\ Len(last.concept_ids) = 0 =>
              (last.raised /\ last.error = "ValueError" /\ ~last.loaded)

\* ------------------------------------------- a backend whose encode fails at times
\* The assigner of Spec in hybrid mode, with an embedding model whose encode raises for
\* some texts during some calls and not during others.

\* The texts encode raises for during a call: none, the text of a segment, the text a
\* concept is embedded from, both.
FaultSets ==
    { {}, {SegText2}, {IncomeWealthInequalityText}, {SegText1, IncomeWealthInequalityText} }

FaultInit ==
    /\ EMBEDDINGS_AVAILABLE = TRUE
    /\ backend = [loads |-> TRUE, failing |-> {}]
    /\ ctor \in {c \in CtorArgs : Arg(c, "use_embeddings", TRUE)}
    /\ assigner = ConceptAssignerInit(ctor, EMBEDDINGS_AVAILABLE, backend)
    /\ arg = NoArg
    /\ last = NoCall

\* Between two calls the texts encode raises for change.
BackendFault ==
    /\ \E failing \in FaultSets \ {backend.failing} :
          backend' = [backend EXCEPT !.failing = failing]
    /\ UNCHANGED <<EMBEDDINGS_AVAILABLE, assigner, ctor, arg, last>>

FaultNext ==
    \/ BackendFault
    \/ AssignConcept
    \/ AssignAllConcepts

FaultSpec == FaultInit /\ [][FaultNext]_vars

\* The embedding computation of a pair fails: encode raises for the text, or for the
\* concept text when the concept embedding is not cached.
EncodeFails(self, text, concept, be) ==
    \/ text \in be.failing
    \/ concept.id \notin DOMAIN self.cache /\ ConceptText(concept) \in be.failing

\* The embedding score of a pair when no encode has ever failed.
FaultFreeScore(text, concept) ==
    ClampedSimilarity(Encode(text), Encode(ConceptText(concept)))

\* The embedding score a pair is to get: 0.0 when its computation fails.
ScoreUnderFault(self, text, concept, be) ==
    IF EncodeFails(self, text, concept, be) THEN 0 ELSE FaultFreeScore(text, concept)

\* The confidence a pair is to get in hybrid mode.
ConfidenceUnderFault(self, text, concept, be) ==
    (self.keyword_weight * KeywordScore(text, concept)) \div Scale
        + (self.embedding_weight * ScoreUnderFault(self, text, concept, be)) \div Scale

\* What a batch is to return for its k-th pair: None below the threshold, otherwise
\* (segment, concept, confidence, method, embedding score).
PairUnderFault(self, text_segment, concept, be) ==
    IF ConfidenceUnderFault(self, text_segment.text, concept, be) < self.min_confidence
    THEN None
    ELSE << text_segment.id, concept.id,
            ConfidenceUnderFault(self, text_segment.text, concept, be), "hybrid",
            <<ScoreUnderFault(self, text_segment.text, concept, be)>> >>

\* The same five fields of the instances of a result.
FieldsOf(instances) ==
    [i \in DOMAIN instances |->
        << instances[i].text_segment_id, instances[i].concept_id,
           instances[i].confidence, instances[i].assignment_method,
           instances[i].metadata.embedding_score >>]

\* What a batch over the segments and concept ids is to return.
BatchUnderFault(self, text_segments, concept_ids, be) ==
    SelectSeq([k \in 1..(Len(text_segments) * Len(concept_ids)) |->
                  PairUnderFault(self,
                                 text_segments[((k - 1) \div Len(concept_ids)) + 1],
                                 ConceptOf(concept_ids[((k - 1) % Len(concept_ids)) + 1]),
                                 be)],
              LAMBDA x : x # None)

\* Every cached concept embedding is the embedding of the text of its concept.
CacheIsSound(self) ==
    \A id \in DOMAIN self.cache : self.cache[id] = Encode(ConceptText(ConceptOf(id)))

\* C12: in hybrid mode a pair whose embedding computation fails gets the embedding score
\* 0.0 and the confidence keyword_weight * keyword_score, with the method 'hybrid'; the
\* batch goes on, and every pair whose computation does not fail gets the score it gets
\* with a backend that never failed.  The assigner stays in hybrid mode and its cache
\* holds no embedding but the one of the concept text.
FailedEmbeddingIsLocal ==
    [][(backend' = backend /\ assigner.use_embeddings) =>
        /\ assigner'.use_embeddings
        /\ CacheIsSound(assigner) => CacheIsSound(assigner')
        /\ last'.op = "assign_concept" =>
            /\ last'.embedding_score =
                  ScoreUnderFault(assigner, last'.text_segment.text,
                                  ConceptOf(last'.concept_id), backend)
            /\ last'.combined_score =
                  ConfidenceUnderFault(assigner, last'.text_segment.text,
                                       ConceptOf(last'.concept_id), backend)
            /\ last'.ret # None => last'.ret.assignment_method = "hybrid"
        /\ (last'.op = "assign_all_concepts" /\ ~last'.raised) =>
              FieldsOf(last'.ret) =
                  BatchUnderFault(assigner, last'.text_segments, last'.concept_ids,
                                  backend)]_vars

\* A batch has scored a segment whose text encode raised for and, after it, a segment
\* it did not raise for: both are in the result, the first with the embedding score 0.0.
BatchWentOnAfterFailure ==
    /\ last.op = "assign_all_concepts"
    /\ ~last.raised
    /\ assigner.use_embeddings
    /\ backend.failing = {SegText2}
    /\ last.text_segments = <<Seg2, Seg1>>
    /\ Len(last.ret) >= 2
    /\ last.ret[1].text_segment_id = Seg2.id
    /\ last.ret[1].metadata.embedding_score = <<0>>
    /\ last.ret[1].assignment_method = "hybrid"
    /\ last.ret[2].text_segment_id = Seg1.id
    /\ last.ret[2].metadata.embedding_score # <<0>>

\* ------------------------------------------------- representation extraction

\* representation_extraction.py:73, the number of keywords kept for a segment.
DefaultKeywordCount == 10

\* representation_extraction.py:116-124
StopWords ==
    { "the", "a", "an", "and", "or", "but", "in", "on", "at", "to", "for",
      "of", "with", "by", "from", "as", "is", "was", "are", "were", "be",
      "been", "being", "have", "has", "had", "do", "does", "did", "will",
      "would", "could", "should", "may", "might", "must", "can", "this",
      "that", "these", "those", "it", "its", "they", "them", "their",
      "we", "our", "you", "your", "he", "she", "his", "her", "said",
      "says", "say", "according", "also", "more", "most", "very", "much" }

\* The items of seq at the indices idx, in the order of idx.
PickAt(seq, idx) == [k \in DOMAIN idx |-> seq[idx[k]]]

\* The indices at which an item of seq occurs for the first time.
FirstOccurrences(seq) == {i \in DOMAIN seq : \A j \in 1..(i - 1) : seq[j] # seq[i]}

\* The keys of a dict (or Counter) filled in the order of seq: each item once, in the
\* order of its first occurrence.
KeysInOrder(seq) == PickAt(seq, Ascending(FirstOccurrences(seq)))

\* The count a Counter filled from seq holds for x.
CountOf(seq, x) == Cardinality({i \in DOMAIN seq : seq[i] = x})

\* A variant of KeysBefore that puts the later of two keys of equal count first.
KeysBeforeLatestFirst(counts, i) ==
    Cardinality({j \in DOMAIN counts :
        counts[j] > counts[i] \/ (counts[j] = counts[i] /\ j > i)})

\* The number of keys that a stable sort by count descending puts before keys[i].
KeysBefore(counts, i) ==
    Cardinality({j \in DOMAIN counts :
        counts[j] > counts[i] \/ (counts[j] = counts[i] /\ j < i)})

\* sorted(items, key=count, reverse=True) of (key, count) items in the order of keys:
\* the sort is stable, reverse=True keeps the order of items of equal count.
SortedByCount(keys, counts) ==
    [r \in DOMAIN keys |-> keys[CHOOSE i \in DOMAIN keys : KeysBefore(counts, i) = r - 1]]

\* The keys of a dict filled in the order of seq, most frequent first.
MostCommon(seq, keys) == SortedByCount(keys, [i \in DOMAIN keys |-> CountOf(seq, keys[i])])

\* representation_extraction.py:129-140: Counter(words).most_common(keyword_count) of the
\* words kept.
KeywordsOfWords(words, keyword_count) == Take(MostCommon(words, KeysInOrder(words)), keyword_count)

\* representation_extraction.py:99-104
_normalize_text(text) == PunctToSpaces(lower(text))

\* representation_extraction.py:126-127: the stop words and the words the caller
\* excludes, lowercased; exclude_words is None or a list.
StopWordsWith(exclude_words) == StopWords \cup {lower(w) : w \in Range(exclude_words)}

\* A variant of KeptWord that keeps short words.
KeptWordOfAnyLength(w, stop_words) == w \notin stop_words

\* representation_extraction.py:134
KeptWord(w, stop_words) == Len(w) > 2 /\ w \notin stop_words

\* representation_extraction.py:106-142, for an extractor that extracts keywords.
_extract_keywords(text, exclude_words, keyword_count) ==
    KeywordsOfWords(SelectSeq(split(_normalize_text(text)),
                              LAMBDA w : KeptWord(w, StopWordsWith(exclude_words))),
                    keyword_count)

\* _extract_keywords on the texts of the model, evaluated once.
KeywordTable == [text \in TabulatedTexts |-> _extract_keywords(text, None, DefaultKeywordCount)]

\* representation_extraction.py:68-97, RepresentationExtractor.__init__
RepresentationExtractorInit(kwargs, available, be) ==
    [ use_embeddings |-> ModelLoaded(Arg(kwargs, "use_embeddings", TRUE), available, be),
      extract_keywords |-> Arg(kwargs, "extract_keywords", TRUE),
      keyword_count |-> Arg(kwargs, "keyword_count", DefaultKeywordCount) ]

\* A variant of RepresentationEmbedding that does not embed a text again that the call
\* before has embedded.
EmbeddingOfNewText(self, text, be) ==
    IF last.op = "extract_representation" /\ last.text_segment.text = text
                                          /\ last.ret.embedding # None
    THEN None
    ELSE IF self.use_embeddings /\ text \notin be.failing THEN <<Encode(text)>> ELSE None

\* representation_extraction.py:161-166: the embedding of the text, None without a
\* model or when encode raises; <<v>> otherwise.
RepresentationEmbedding(self, text, be) ==
    IF self.use_embeddings /\ text \notin be.failing THEN <<Encode(text)>> ELSE None

\* representation_extraction.py:169-171
RepresentationKeywords(self, text) ==
    IF ~self.extract_keywords THEN <<>>
    ELSE IF text \in DOMAIN KeywordTable /\ self.keyword_count = DefaultKeywordCount
    THEN KeywordTable[text]
    ELSE _extract_keywords(text, None, self.keyword_count)

\* representation_extraction.py:176-189, Representation(...)
Representation(concept_instance, text, embedding, keywords) ==
    [ concept_instance_id |-> concept_instance.text_segment_id,
      embedding |-> embedding,
      keywords |-> keywords,
      frame_summary |-> None,
      metadata |->
        [ concept_id |-> concept_instance.concept_id,
          text_length |-> Len(text),
          keyword_count |-> Len(keywords),
          has_embedding |-> embedding # None,
          confidence |-> concept_instance.confidence ] ]

\* representation_extraction.py:144-191
extract_representation(self, concept_instance, text_segment, be) ==
    Representation(concept_instance, text_segment.text,
                   RepresentationEmbedding(self, text_segment.text, be),
                   RepresentationKeywords(self, text_segment.text))

\* A variant of WithSegment that stops at the first instance whose segment is missing.
WithSegmentUntilMissing(concept_instances, text_segments) ==
    {i \in DOMAIN concept_instances :
        \A j \in 1..i : SegmentLookup(text_segments, concept_instances[j].text_segment_id) # {}}

\* The indices of the instances whose segment the lookup finds.
WithSegment(concept_instances, text_segments) ==
    {i \in DOMAIN concept_instances :
        SegmentLookup(text_segments, concept_instances[i].text_segment_id) # {}}

\* representation_extraction.py:213-222: one representation for each instance whose
\* segment is found, in the order of the instances.
RepresentationsAt(self, concept_instances, text_segments, idx, be) ==
    [k \in DOMAIN idx |->
        extract_representation(
            self, concept_instances[idx[k]],
            CHOOSE seg \in SegmentLookup(text_segments,
                                         concept_instances[idx[k]].text_segment_id) : TRUE,
            be)]

\* representation_extraction.py:193-225
extract_all_representations(self, concept_instances, text_segments, be) ==
    RepresentationsAt(self, concept_instances, text_segments,
                      Ascending(WithSegment(concept_instances, text_segments)), be)

\* ------------------------------------------------------ comparative analysis

\* comparative_analysis.py:199, the number of keywords reported for a source.
TopKeywordCount == 10

\* comparative_analysis.py:38-49
ComparisonResult(concept_id, sources, metric_type, values, metadata) ==
    [ concept_id |-> concept_id, sources |-> sources, metric_type |-> metric_type,
      values |-> values, metadata |-> metadata ]

\* instance.metadata.get('document_id'): None, or <<id>>.
DocumentIdOf(instance) ==
    IF "document_id" \in DOMAIN instance.metadata
    THEN instance.metadata.document_id
    ELSE None

\* not doc_id: None and the empty string are false.
NoDocumentId(doc_id) == doc_id = None \/ doc_id = <<"">>

\* documents_df[documents_df['id'] == doc_id]
RowsOfDocument(documents_df, doc_id) ==
    SelectSeq(documents_df, LAMBDA row : row.id = doc_id[1])

\* A variant of SourceOfRows that groups a document without a row under a source of
\* its own.
SourceOrUnknown(rows) == IF Len(rows) = 0 THEN <<"unknown">> ELSE <<rows[1].source_id>>

\* doc.iloc[0]['source_id'] of the rows found, None when doc.empty.
SourceOfRows(rows) == IF Len(rows) = 0 THEN None ELSE <<rows[1].source_id>>

\* comparative_analysis.py:87-95, 181-189, 227-235: the source an instance is grouped
\* under, None when the instance is skipped.
SourceOfInstance(instance, documents_df) ==
    IF NoDocumentId(DocumentIdOf(instance))
    THEN None
    ELSE SourceOfRows(RowsOfDocument(documents_df, DocumentIdOf(instance)))

\* rep_lookup.get(id) for rep_lookup = {rep.concept_instance_id: rep for rep in
\* representations}: the last representation of that id, as a set of at most one.
RepLookup(representations, id) ==
    {representations[k] : k \in {k \in DOMAIN representations :
        /\ representations[k].concept_instance_id = id
        /\ \A h \in DOMAIN representations :
             representations[h].concept_instance_id = id => h <= k}}

\* The entries of seq that are not None, in order.
Kept(seq) == SelectSeq(seq, LAMBDA e : e # None)

\* A variant of EntriesOf that gives every source all the entries.
EntriesOfAnySource(entries, source_id) == entries

\* The entries of a source, in order.
EntriesOf(entries, source_id) == SelectSeq(entries, LAMBDA e : e.source_id = source_id)

\* The sources of the entries, each once, in the order in which they are first met:
\* the keys of the defaultdict the entries are gathered in.
SourcesOf(entries) == KeysInOrder([i \in DOMAIN entries |-> entries[i].source_id])

\* comparative_analysis.py:82-96: what one instance adds to source_embeddings.
EmbeddingEntry(found, source) ==
    IF found = {} THEN None
    ELSE IF (CHOOSE rep \in found : TRUE).embedding = None THEN None
    ELSE IF source = None THEN None
    ELSE [ source_id |-> source[1],
           embedding |-> (CHOOSE rep \in found : TRUE).embedding[1] ]

\* comparative_analysis.py:81-96: the loop over the instances.
EmbeddingEntries(representations, concept_instances, documents_df) ==
    Kept([i \in DOMAIN concept_instances |->
            EmbeddingEntry(RepLookup(representations, concept_instances[i].text_segment_id),
                           SourceOfInstance(concept_instances[i], documents_df))])

\* The dict source_id -> list of embeddings, with its keys in order.
EmbeddingsBySource(entries, sources) ==
    [ sources |-> sources,
      embeddings |->
        [s \in Range(sources) |->
            [k \in DOMAIN EntriesOf(entries, s) |-> EntriesOf(entries, s)[k].embedding]] ]

\* comparative_analysis.py:64-98
_get_source_embeddings(representations, concept_instances, documents_df) ==
    EmbeddingsBySource(
        EmbeddingEntries(representations, concept_instances, documents_df),
        SourcesOf(EmbeddingEntries(representations, concept_instances, documents_df)))

RECURSIVE SumOfVectors(_)
\* np.mean(embeddings, axis=0) times len(embeddings): the cosine below does not change
\* when a vector is multiplied by a positive number.
SumOfVectors(embeddings) ==
    IF Len(embeddings) = 0 THEN <<0, 0>>
    ELSE << embeddings[1][1] + SumOfVectors(Tail(embeddings))[1],
            embeddings[1][2] + SumOfVectors(Tail(embeddings))[2] >>

\* A float that may be nan: float('nan'), or a number in fixed point.
NaN == [nan |-> TRUE, value |-> 0]

Finite(x) == [nan |-> FALSE, value |-> x]

\* The integer part of the square root.
ISqrt(n) == CHOOSE r \in 0..n : r * r <= n /\ n < (r + 1) * (r + 1)

\* comparative_analysis.py:139-144: the cosine of two averaged embeddings, not clamped;
\* nan when one of them is the zero vector (a float division 0/0, no exception).
SourceCosine(u, v) ==
    IF Dot(u, u) * Dot(v, v) = 0 THEN NaN
    ELSE Finite((Dot(u, v) * Scale) \div ISqrt(Dot(u, u) * Dot(v, v)))

\* comparative_analysis.py:143
PairKey(source1, source2) == source1 \o " vs " \o source2

\* A variant of SourcePairs that visits every pair in both orders.
OrderedSourcePairs(sources) == {p \in (DOMAIN sources) \X (DOMAIN sources) : p[1] # p[2]}

\* comparative_analysis.py:133-134: the pairs of positions the two loops visit.
SourcePairs(sources) == {p \in (DOMAIN sources) \X (DOMAIN sources) : p[1] < p[2]}

\* The pair that a key of similarity_matrix was last written for.
LastPairOf(sources, key) ==
    CHOOSE p \in SourcePairs(sources) :
        /\ PairKey(sources[p[1]], sources[p[2]]) = key
        /\ \A q \in SourcePairs(sources) :
             PairKey(sources[q[1]], sources[q[2]]) = key =>
                (q[1] < p[1] \/ (q[1] = p[1] /\ q[2] <= p[2]))

\* comparative_analysis.py:131-144
SimilarityMatrix(sources, averages) ==
    [key \in {PairKey(sources[p[1]], sources[p[2]]) : p \in SourcePairs(sources)} |->
        SourceCosine(averages[sources[LastPairOf(sources, key)[1]]],
                     averages[sources[LastPairOf(sources, key)[2]]])]

\* comparative_analysis.py:122-155, with the embeddings grouped.
SimilarityResult(concept_id, source_embeddings) ==
    ComparisonResult(
        concept_id, source_embeddings.sources, "source_similarity",
        SimilarityMatrix(source_embeddings.sources,
                         [s \in Range(source_embeddings.sources) |->
                             SumOfVectors(source_embeddings.embeddings[s])]),
        [ num_sources |-> Len(source_embeddings.sources),
          embeddings_per_source |->
            [s \in Range(source_embeddings.sources) |->
                Len(source_embeddings.embeddings[s])] ])

\* A variant of SimilarityOfGrouped that asks for one source only.
SimilarityOfAnyGrouped(concept_id, source_embeddings) ==
    IF Len(source_embeddings.sources) < 1
    THEN None
    ELSE SimilarityResult(concept_id, source_embeddings)

\* comparative_analysis.py:116-155, with the embeddings grouped.
SimilarityOfGrouped(concept_id, source_embeddings) ==
    IF Len(source_embeddings.sources) < 2
    THEN None
    ELSE SimilarityResult(concept_id, source_embeddings)

\* comparative_analysis.py:100-155
calculate_source_similarity(representations, concept_instances, documents_df, concept_id) ==
    SimilarityOfGrouped(concept_id,
        _get_source_embeddings(representations, concept_instances, documents_df))

\* comparative_analysis.py:176-189: what one instance adds to source_keywords.
KeywordEntry(found, source) ==
    IF found = {} THEN None
    ELSE IF (CHOOSE rep \in found : TRUE).keywords = <<>> THEN None
    ELSE IF source = None THEN None
    ELSE [ source_id |-> source[1],
           keywords |-> (CHOOSE rep \in found : TRUE).keywords ]

\* comparative_analysis.py:175-193: the loop over the instances.
KeywordEntries(representations, concept_instances, documents_df) ==
    Kept([i \in DOMAIN concept_instances |->
            KeywordEntry(RepLookup(representations, concept_instances[i].text_segment_id),
                         SourceOfInstance(concept_instances[i], documents_df))])

RECURSIVE KeywordsCounted(_)
\* comparative_analysis.py:192-193: the keywords counted for a source, in the order in
\* which they are counted.
KeywordsCounted(entries) ==
    IF Len(entries) = 0 THEN <<>>
    ELSE entries[1].keywords \o KeywordsCounted(Tail(entries))

\* comparative_analysis.py:200-203, with the sorted keywords cut to the first ten.
LexicalData(counted, top_keywords) ==
    [ top_keywords |-> top_keywords,
      keyword_counts |-> [kw \in Range(top_keywords) |-> CountOf(counted, kw)] ]

\* comparative_analysis.py:197-203, for one source: the keys of its keyword_counts are in
\* the order in which the keywords are first counted.
LexicalDataOf(counted) ==
    LexicalData(counted, Take(MostCommon(counted, KeysInOrder(counted)), TopKeywordCount))

\* comparative_analysis.py:195-211, with the keywords gathered.
LexicalResult(concept_id, entries, sources) ==
    ComparisonResult(
        concept_id, sources, "lexical_patterns",
        [s \in Range(sources) |-> LexicalDataOf(KeywordsCounted(EntriesOf(entries, s)))],
        <<>>)

\* comparative_analysis.py:157-211
analyze_lexical_patterns(representations, concept_instances, documents_df, concept_id) ==
    LexicalResult(concept_id,
        KeywordEntries(representations, concept_instances, documents_df),
        SourcesOf(KeywordEntries(representations, concept_instances, documents_df)))

\* comparative_analysis.py:227-239: what one instance adds to source_stats.
CoverageEntry(instance, source) ==
    IF source = None THEN None
    ELSE [ source_id |-> source[1],
           document_id |-> DocumentIdOf(instance)[1],
           confidence |-> instance.confidence ]

\* comparative_analysis.py:225-239: the loop over the instances.
CoverageEntries(concept_instances, documents_df) ==
    Kept([i \in DOMAIN concept_instances |->
            CoverageEntry(concept_instances[i],
                          SourceOfInstance(concept_instances[i], documents_df))])

RECURSIVE SumOf(_)
SumOf(numbers) == IF Len(numbers) = 0 THEN 0 ELSE numbers[1] + SumOf(Tail(numbers))

\* comparative_analysis.py:244-250, for the entries of one source (there is at least
\* one); the mean to the precision of the fixed point.
CoverageData(entries) ==
    [ document_count |-> Cardinality({entries[k].document_id : k \in DOMAIN entries}),
      segment_count |-> Len(entries),
      avg_confidence |-> SumOf([k \in DOMAIN entries |-> entries[k].confidence])
                            \div Len(entries),
      min_confidence |-> SetMin({entries[k].confidence : k \in DOMAIN entries}),
      max_confidence |-> SetMax({entries[k].confidence : k \in DOMAIN entries}) ]

\* comparative_analysis.py:241-258, with the statistics gathered.
CoverageResult(concept_id, entries, sources) ==
    ComparisonResult(
        concept_id, sources, "coverage",
        [s \in Range(sources) |-> CoverageData(EntriesOf(entries, s))],
        <<>>)

\* comparative_analysis.py:213-258
analyze_coverage(concept_instances, documents_df, concept_id) ==
    CoverageResult(concept_id,
        CoverageEntries(concept_instances, documents_df),
        SourcesOf(CoverageEntries(concept_instances, documents_df)))

\* ------------------------------------------------------- the analysis run
\* The three metrics of ComparativeAnalyzer, called on instances the assigner made, on
\* the representations the extractor made for them and on a document table.

\* Longest list of instances handed to a metric.
MaxInstances == 3

Doc4 == [id |-> "doc4", source_id |-> "cnn", raw_text |-> Para1]

\* documents.parquet when the instances were assigned.
AssignedDocs == <<Doc1, Doc2, Doc3, Doc4>>

\* The document tables handed to a metric: the table the instances were assigned from,
\* and a later one from which a document is gone (met with the default extractor).
DocTables == { AssignedDocs, <<Doc1, Doc3, Doc4>> }

\* The segments of the documents: two of doc1, one of doc2, one of doc4.
AssignedSegments == canonicalize_documents(AssignedDocs)

WorkingBackend == [loads |-> TRUE, failing |-> {}]

\* The assigner the instances come from.
PoolAssigner == ConceptAssignerInit([min_confidence |-> 150], TRUE, WorkingBackend)

\* run_analysis.py:74-85: the ConceptInstance load_data rebuilds from a saved row (the
\* assigner always saves a keyword score and a text length).
InstanceOfRow(row) ==
    [ concept_id |-> row.concept_id,
      text_segment_id |-> row.text_segment_id,
      confidence |-> row.confidence,
      assignment_method |-> row.assignment_method,
      metadata |->
        [ keyword_score |-> row.keyword_score,
          embedding_score |-> row.embedding_score,
          text_length |-> row.text_length,
          document_id |-> row.document_id ] ]

\* run_analysis.py:46-88: the instances of concept_instances.parquet.
load_data(rows) == [i \in DOMAIN rows |-> InstanceOfRow(rows[i])]

\* The instance assign_concept returns for a segment and a concept.
Assigned(text_segment, concept) ==
    assign_concept(PoolAssigner, text_segment, concept, WorkingBackend).ret

\* The same instance saved by save_concept_instances with the segments given and loaded
\* again by load_data.
Reloaded(text_segment, concept, text_segments) ==
    load_data(save_concept_instances(<<Assigned(text_segment, concept)>>, text_segments))[1]

\* The instances handed to a metric: instances of the registered concept for segments
\* of three sources, saved and loaded again; one as the assigner returned it; one of
\* another concept.
InstancePool ==
    { Reloaded(AssignedSegments[1], IncomeWealthInequality, AssignedSegments),
      Reloaded(AssignedSegments[2], IncomeWealthInequality, AssignedSegments),
      Reloaded(AssignedSegments[3], IncomeWealthInequality, AssignedSegments),
      Reloaded(AssignedSegments[4], IncomeWealthInequality, AssignedSegments),
      Assigned(AssignedSegments[1], IncomeWealthInequality),
      Reloaded(AssignedSegments[1], ExampleConcept, AssignedSegments) }

RECURSIVE ListsUpTo(_, _)
\* The lists of elements of S of length at most n.
ListsUpTo(S, n) ==
    IF n = 0 THEN {<<>>}
    ELSE ListsUpTo(S, n - 1)
            \cup {Append(q, x) : q \in {q \in ListsUpTo(S, n - 1) : Len(q) = n - 1}, x \in S}

InstanceLists == ListsUpTo(InstancePool, MaxInstances)

\* The constructor calls of the extractor: RepresentationExtractor() and one that
\* neither embeds nor extracts keywords.
ExtractorArgs == { <<>>, [use_embeddings |-> FALSE, extract_keywords |-> FALSE] }

\* The embedding backends of the extractor: one that works and one whose encode raises
\* on the text of the segment of doc2.
ExtractorBackends == { WorkingBackend, [loads |-> TRUE, failing |-> {Para4}] }

\* The arguments of a metric: the instances, their representations, the document table.
AnalysisArg(concept_instances, documents_df, kwargs, be) ==
    [ concept_instances |-> concept_instances,
      representations |->
        extract_all_representations(RepresentationExtractorInit(kwargs, TRUE, be),
                                    concept_instances, AssignedSegments, be),
      documents_df |-> documents_df,
      concept_id |-> "income_wealth_inequality" ]

AnalysisInit ==
    /\ EMBEDDINGS_AVAILABLE = TRUE
    /\ ctor \in ExtractorArgs
    /\ backend \in (IF Arg(ctor, "use_embeddings", TRUE)
                    THEN ExtractorBackends ELSE {WorkingBackend})
    /\ assigner = None
    /\ \E concept_instances \in InstanceLists, documents_df \in DocTables :
          /\ (documents_df # AssignedDocs => (ctor = <<>> /\ backend = WorkingBackend))
          /\ arg = AnalysisArg(concept_instances, documents_df, ctor, backend)
    /\ last = NoCall

\* The record of a metric call that has returned ret.
MetricCall(op, ret) == [op |-> op, ret |-> ret]

\* analyzer.calculate_source_similarity(representations, concept_instances, documents_df, concept_id)
CalculateSourceSimilarity ==
    /\ last' = MetricCall("calculate_source_similarity",
                          calculate_source_similarity(arg.representations,
                                                      arg.concept_instances,
                                                      arg.documents_df, arg.concept_id))
    /\ UNCHANGED <<EMBEDDINGS_AVAILABLE, backend, assigner, ctor, arg>>

\* analyzer.analyze_lexical_patterns(representations, concept_instances, documents_df, concept_id)
AnalyzeLexicalPatterns ==
    /\ last' = MetricCall("analyze_lexical_patterns",
                          analyze_lexical_patterns(arg.representations,
                                                   arg.concept_instances,
                                                   arg.documents_df, arg.concept_id))
    /\ UNCHANGED <<EMBEDDINGS_AVAILABLE, backend, assigner, ctor, arg>>

\* analyzer.analyze_coverage(concept_instances, documents_df, concept_id)
AnalyzeCoverage ==
    /\ last' = MetricCall("analyze_coverage",
                          analyze_coverage(arg.concept_instances, arg.documents_df,
                                           arg.concept_id))
    /\ UNCHANGED <<EMBEDDINGS_AVAILABLE, backend, assigner, ctor, arg>>

AnalysisNext ==
    \/ CalculateSourceSimilarity
    \/ AnalyzeLexicalPatterns
    \/ AnalyzeCoverage

AnalysisSpec == AnalysisInit /\ [][AnalysisNext]_vars

\* ------------------------------------------------ properties of the analysis

\* The segment an instance was assigned for, among the segments of the documents.
SegmentOf(instance) ==
    CHOOSE seg \in Range(AssignedSegments) : seg.id = instance.text_segment_id

\* The source the join instance.text_segment_id -> segment -> segment.document_id ->
\* document.source_id gives an instance: None when the document has no row.
SourceBySegment(instance, documents_df) ==
    SourceOfRows(SelectSeq(documents_df,
                           LAMBDA row : row.id = SegmentOf(instance).document_id))

\* The positions of the instances of the call that the segment join gives the source.
OfSourceBySegment(source_id) ==
    {i \in DOMAIN arg.concept_instances :
        SourceBySegment(arg.concept_instances[i], arg.documents_df) = <<source_id>>}

\* The representation of the instance at position i has an embedding.
HasEmbedding(i) ==
    \E rep \in RepLookup(arg.representations, arg.concept_instances[i].text_segment_id) :
        rep.embedding # None

\* The representation of the instance at position i has keywords.
HasKeywords(i) ==
    \E rep \in RepLookup(arg.representations, arg.concept_instances[i].text_segment_id) :
        rep.keywords # <<>>

\* The sources of the rows of the document table of the call.
TableSources == {arg.documents_df[k].source_id : k \in DOMAIN arg.documents_df}

\* C13: every instance of the assigner, as returned or saved and loaded again, whose
\* segment is of a document with a row is grouped under the source of that document:
\* coverage counts it there, the lexical patterns report that source when the instance
\* has keywords, and the similarity counts its embedding there.
GroupedBySegmentJoin ==
    /\ last.op = "analyze_coverage" =>
          \A s \in TableSources :
              OfSourceBySegment(s) # {} =>
                 /\ s \in DOMAIN last.ret.values
                 /\ last.ret.values[s].segment_count = Cardinality(OfSourceBySegment(s))
    /\ last.op = "analyze_lexical_patterns" =>
          \A s \in TableSources :
              (\E i \in OfSourceBySegment(s) : HasKeywords(i)) =>
                  s \in DOMAIN last.ret.values
    /\ (last.op = "calculate_source_similarity" /\ last.ret # None) =>
          \A s \in TableSources :
              (\E i \in OfSourceBySegment(s) : HasEmbedding(i)) =>
                 /\ s \in DOMAIN last.ret.metadata.embeddings_per_source
                 /\ last.ret.metadata.embeddings_per_source[s] =
                        Cardinality({i \in OfSourceBySegment(s) : HasEmbedding(i)})

\* The document join of the instance at position i succeeds: its metadata hold a
\* document id and the table has a row of that id.
Joins(i) ==
    /\ "document_id" \in DOMAIN arg.concept_instances[i].metadata
    /\ arg.concept_instances[i].metadata.document_id # None
    /\ \E k \in DOMAIN arg.documents_df :
          <<arg.documents_df[k].id>> = arg.concept_instances[i].metadata.document_id

\* The positions of the instances of the call joined to the source.
JoinedTo(source_id) ==
    {i \in DOMAIN arg.concept_instances :
        /\ Joins(i)
        /\ \E k \in DOMAIN arg.documents_df :
              /\ <<arg.documents_df[k].id>> = arg.concept_instances[i].metadata.document_id
              /\ arg.documents_df[k].source_id = source_id}

\* The sum of the segment counts a coverage result reports.
CountedSegments(ret) ==
    SumOf([k \in DOMAIN ret.sources |-> ret.values[ret.sources[k]].segment_count])

\* C14: the segment counts of a coverage result sum to the number of instances passed
\* to the call whose document join succeeds; each source is reported once, with the
\* number of instances joined to it, so that a joined instance is counted once, under
\* one source, and an instance that does not join is not counted.
CoverageIsComplete ==
    last.op = "analyze_coverage" =>
        /\ CountedSegments(last.ret) =
              Cardinality({i \in DOMAIN arg.concept_instances : Joins(i)})
        /\ Cardinality(Range(last.ret.sources)) = Len(last.ret.sources)
        /\ DOMAIN last.ret.values = Range(last.ret.sources)
        /\ \A s \in Range(last.ret.sources) :
              last.ret.values[s].segment_count = Cardinality(JoinedTo(s))
        /\ \A i \in DOMAIN arg.concept_instances, s, t \in TableSources :
              (i \in JoinedTo(s) /\ i \in JoinedTo(t)) => s = t

\* Coverage has counted the instances of two sources and left out one that does not join.
CoverageOfTwoSources ==
    /\ last.op = "analyze_coverage"
    /\ Len(last.ret.sources) = 2
    /\ CountedSegments(last.ret) = 2
    /\ Len(arg.concept_instances) = 3
    /\ \E i \in DOMAIN arg.concept_instances : ~Joins(i)

\* C15: in the coverage result for the concept of the call, document_count of a source
\* is the number of distinct documents among the instances joined to it, and
\* segment_count the number of distinct segments among its joined instances of that
\* concept: an instance of another concept, or a second instance of a segment, adds
\* nothing to segment_count.
CoverageCountsDistinctSegments ==
    last.op = "analyze_coverage" =>
        \A s \in Range(last.ret.sources) :
            /\ last.ret.values[s].document_count =
                  Cardinality({arg.concept_instances[i].metadata.document_id :
                                  i \in JoinedTo(s)})
            /\ last.ret.values[s].segment_count =
                  Cardinality({arg.concept_instances[i].text_segment_id :
                                  i \in {j \in JoinedTo(s) :
                                            arg.concept_instances[j].concept_id =
                                                arg.concept_id}})

\* C16 to C19 speak of the data a metric needs: the sources that have a joined instance,
\* and those that have one whose representation holds an embedding or keywords.
JoinedSources == {s \in TableSources : JoinedTo(s) # {}}

SourcesWithEmbedding == {s \in TableSources : \E i \in JoinedTo(s) : HasEmbedding(i)}

SourcesWithKeywords == {s \in TableSources : \E i \in JoinedTo(s) : HasKeywords(i)}

\* C19: a metric whose data are missing returns None: the similarity with fewer than two
\* sources with an embedding, coverage when no instance is joined to a source, the
\* lexical patterns when no joined instance has keywords.  No result with empty sources
\* and empty values is returned.
NoResultWithoutData ==
    /\ (last.op = "calculate_source_similarity" /\ Cardinality(SourcesWithEmbedding) < 2)
          => last.ret = None
    /\ (last.op = "analyze_coverage" /\ JoinedSources = {}) => last.ret = None
    /\ (last.op = "analyze_lexical_patterns" /\ SourcesWithKeywords = {})
          => last.ret = None

\* C16: calculate_source_similarity returns None exactly when fewer than two sources
\* have a joined instance whose representation holds an embedding: with one such
\* source, with none, and when a second source has instances but no embedding.
SimilarityNeedsTwoSources ==
    last.op = "calculate_source_similarity" =>
        (last.ret = None <=> Cardinality(SourcesWithEmbedding) < 2)

\* The similarity has returned None for instances joined to two sources of which only
\* one has an embedding.
NoSimilarityForOneEmbeddedSource ==
    /\ last.op = "calculate_source_similarity"
    /\ last.ret = None
    /\ Cardinality(JoinedSources) = 2
    /\ Cardinality(SourcesWithEmbedding) = 1

\* The position of the first instance that gives the source an embedding.
FirstEmbeddingOf(source_id) == SetMin({i \in JoinedTo(source_id) : HasEmbedding(i)})

\* C17: a similarity result over n sources lists the n sources with an embedding, each
\* once, in the order in which they are first met; its values have the key "A vs B" for
\* every two sources of which A comes first, n*(n-1)/2 keys in all, none of a source
\* with itself and none in the other order; embeddings_per_source counts the embeddings
\* averaged for each source.
SimilarityCoversEveryPair ==
    (last.op = "calculate_source_similarity" /\ last.ret # None) =>
        /\ Range(last.ret.sources) = SourcesWithEmbedding
        /\ Len(last.ret.sources) = Cardinality(SourcesWithEmbedding)
        /\ \A i, j \in DOMAIN last.ret.sources :
              i < j => FirstEmbeddingOf(last.ret.sources[i])
                          < FirstEmbeddingOf(last.ret.sources[j])
        /\ DOMAIN last.ret.values =
              {last.ret.sources[p[1]] \o " vs " \o last.ret.sources[p[2]] :
                  p \in {q \in (DOMAIN last.ret.sources) \X (DOMAIN last.ret.sources) :
                            q[1] < q[2]}}
        /\ 2 * Cardinality(DOMAIN last.ret.values) =
              Len(last.ret.sources) * (Len(last.ret.sources) - 1)
        /\ \A i, j \in DOMAIN last.ret.sources :
              j <= i => (last.ret.sources[i] \o " vs " \o last.ret.sources[j])
                            \notin DOMAIN last.ret.values
        /\ last.ret.metadata.num_sources = Len(last.ret.sources)
        /\ DOMAIN last.ret.metadata.embeddings_per_source = Range(last.ret.sources)
        /\ \A s \in Range(last.ret.sources) :
              last.ret.metadata.embeddings_per_source[s] =
                  Cardinality({i \in JoinedTo(s) : HasEmbedding(i)})

\* A similarity result over three sources holds three values.
SimilarityOfThreeSources ==
    /\ last.op = "calculate_source_similarity"
    /\ last.ret # None
    /\ Len(last.ret.sources) = 3
    /\ Cardinality(DOMAIN last.ret.values) = 3

\* The representation the lookup finds for the instance at position i.
RepOf(i) ==
    CHOOSE rep \in RepLookup(arg.representations, arg.concept_instances[i].text_segment_id) :
        TRUE

\* The places at which a keyword is counted for the source: the instance, the position
\* among the keywords of its representation, and the keyword.
CountedPlaces(source_id) ==
    UNION {{<<i, p, RepOf(i).keywords[p]>> : p \in DOMAIN RepOf(i).keywords} :
              i \in {j \in JoinedTo(source_id) : HasKeywords(j)}}

\* How often each keyword is counted at the places.
CountsAt(places) ==
    [kw \in {t[3] : t \in places} |-> Cardinality({t \in places : t[3] = kw})]

\* Where each keyword is counted first, as a number.
FirstsAt(places) ==
    [kw \in {t[3] : t \in places} |->
        SetMin({t[1] * (DefaultKeywordCount + 1) + t[2] : t \in {u \in places : u[3] = kw}})]

\* Keyword kw1 goes before keyword kw2: it is counted more often, or as often and first.
GoesBefore(counts, firsts, kw1, kw2) ==
    \/ counts[kw1] > counts[kw2]
    \/ counts[kw1] = counts[kw2] /\ firsts[kw1] < firsts[kw2]

\* The keywords top of a source with the given counts are the first ten of its keywords,
\* in order, and keyword_counts holds their counts.
RankedTopTen(data, counts, firsts) ==
    /\ Len(data.top_keywords) <= 10
    /\ Len(data.top_keywords) = Min(10, Cardinality(DOMAIN counts))
    /\ Range(data.top_keywords) \subseteq DOMAIN counts
    /\ \A a, b \in DOMAIN data.top_keywords :
          a < b => GoesBefore(counts, firsts, data.top_keywords[a], data.top_keywords[b])
    /\ \A kw \in (DOMAIN counts) \ Range(data.top_keywords) :
          \A a \in DOMAIN data.top_keywords :
              GoesBefore(counts, firsts, data.top_keywords[a], kw)
    /\ DOMAIN data.keyword_counts = Range(data.top_keywords)
    /\ \A kw \in Range(data.top_keywords) : data.keyword_counts[kw] = counts[kw]

\* C18: for each source of a lexical-patterns result, top_keywords are the ten keywords
\* (all of them when there are fewer) that go first when the keywords of the source are
\* ordered by count descending, keywords of equal count in the order in which they are
\* first counted for the source, and they are listed in that order; keyword_counts holds
\* the counts of exactly these keywords.
TopKeywordsAreRanked ==
    last.op = "analyze_lexical_patterns" =>
        /\ Range(last.ret.sources) = SourcesWithKeywords
        /\ DOMAIN last.ret.values = SourcesWithKeywords
        /\ \A s \in SourcesWithKeywords :
              RankedTopTen(last.ret.values[s], CountsAt(CountedPlaces(s)),
                           FirstsAt(CountedPlaces(s)))

\* A source has more than ten keywords; the ten reported are counted twice, each as
\* often as the next, and a keyword counted before them, but once, is left out.
TopTenOfTiedKeywords ==
    /\ last.op = "analyze_lexical_patterns"
    /\ \E s \in SourcesWithKeywords :
          /\ Cardinality(DOMAIN CountsAt(CountedPlaces(s))) > 10
          /\ Len(last.ret.values[s].top_keywords) = 10
          /\ last.ret.values[s].keyword_counts[last.ret.values[s].top_keywords[1]] = 2
          /\ last.ret.values[s].keyword_counts[last.ret.values[s].top_keywords[10]] = 2
          /\ \E kw \in (DOMAIN CountsAt(CountedPlaces(s)))
                            \ Range(last.ret.values[s].top_keywords) :
                FirstsAt(CountedPlaces(s))[kw] <
                    FirstsAt(CountedPlaces(s))[last.ret.values[s].top_keywords[1]]

\* The instances of the call whose document join succeeds, in order.
JoinedInstances ==
    PickAt(arg.concept_instances, Ascending({i \in DOMAIN arg.concept_instances : Joins(i)}))

\* C20: an instance without a document id in its metadata, or with one that has no row
\* in the document table, is left out of each metric: the metric is what it is for the
\* other instances alone, and no source is reported but those of joined instances.
UnjoinedIsLeftOut ==
    /\ last.op = "calculate_source_similarity" =>
          /\ last.ret = calculate_source_similarity(arg.representations, JoinedInstances,
                                                    arg.documents_df, arg.concept_id)
          /\ last.ret # None => Range(last.ret.sources) \subseteq JoinedSources
    /\ last.op = "analyze_lexical_patterns" =>
          /\ last.ret = analyze_lexical_patterns(arg.representations, JoinedInstances,
                                                 arg.documents_df, arg.concept_id)
          /\ Range(last.ret.sources) \subseteq JoinedSources
    /\ last.op = "analyze_coverage" =>
          /\ last.ret = analyze_coverage(JoinedInstances, arg.documents_df,
                                         arg.concept_id)
          /\ Range(last.ret.sources) = JoinedSources

\* The similarity has returned a result for two joined instances and a third one whose
\* document has no row in the table.
SimilarityDespiteMissingRow ==
    /\ last.op = "calculate_source_similarity"
    /\ last.ret # None
    /\ Len(JoinedInstances) = 2
    /\ \E i \in DOMAIN arg.concept_instances :
          /\ ~Joins(i)
          /\ "document_id" \in DOMAIN arg.concept_instances[i].metadata
          /\ arg.concept_instances[i].metadata.document_id # None

\* ------------------------------------------------------ the extraction run
\* A RepresentationExtractor called on instances the assigner made and on a segment
\* table; self is the extractor, which no method assigns to after the constructor.

\* The segment tables handed to the extractor: the segments the instances were assigned
\* for, and the segments made again after doc2 is gone from the documents.
SegmentTables == { AssignedSegments, canonicalize_documents(<<Doc1, Doc3, Doc4>>) }

\* The instances handed to the extractor: two of doc1's first segment (one for each
\* concept) and one of the segment of doc2.
ExtractPool ==
    { Reloaded(AssignedSegments[1], IncomeWealthInequality, AssignedSegments),
      Reloaded(AssignedSegments[3], IncomeWealthInequality, AssignedSegments),
      Reloaded(AssignedSegments[1], ExampleConcept, AssignedSegments) }

ExtractInit ==
    /\ EMBEDDINGS_AVAILABLE = TRUE
    /\ ctor \in ExtractorArgs
    /\ backend \in (IF Arg(ctor, "use_embeddings", TRUE)
                    THEN ExtractorBackends ELSE {WorkingBackend})
    /\ assigner = RepresentationExtractorInit(ctor, EMBEDDINGS_AVAILABLE, backend)
    /\ \E concept_instances \in ListsUpTo(ExtractPool, MaxInstances),
          text_segments \in SegmentTables :
          arg = [concept_instances |-> concept_instances, text_segments |-> text_segments]
    /\ last = NoCall

\* What the record of a call keeps of the call before it, when that was an extraction
\* too: its arguments, the extractor it was made on and what it returned.
PreviousExtraction ==
    IF last.op = "extract_representation"
    THEN <<[ concept_instance |-> last.concept_instance,
             text_segment |-> last.text_segment,
             self |-> last.self,
             ret |-> last.ret ]>>
    ELSE None

\* extractor.extract_representation(concept_instance, text_segment), for an instance and
\* its segment; self is the extractor after the call.
ExtractRepresentation ==
    \E i \in DOMAIN arg.concept_instances, k \in DOMAIN arg.text_segments :
        /\ arg.text_segments[k].id = arg.concept_instances[i].text_segment_id
        /\ last' = [ op |-> "extract_representation",
                     concept_instance |-> arg.concept_instances[i],
                     text_segment |-> arg.text_segments[k],
                     self |-> assigner,
                     ret |-> extract_representation(assigner, arg.concept_instances[i],
                                                    arg.text_segments[k], backend),
                     previous |-> PreviousExtraction ]
        /\ UNCHANGED <<EMBEDDINGS_AVAILABLE, backend, assigner, ctor, arg>>

\* extractor.extract_all_representations(concept_instances, text_segments)
ExtractAllRepresentations ==
    /\ last' = MetricCall("extract_all_representations",
                          extract_all_representations(assigner, arg.concept_instances,
                                                      arg.text_segments, backend))
    /\ UNCHANGED <<EMBEDDINGS_AVAILABLE, backend, assigner, ctor, arg>>

ExtractNext ==
    \/ ExtractRepresentation
    \/ ExtractAllRepresentations

ExtractSpec == ExtractInit /\ [][ExtractNext]_vars

\* ---------------------------------------------- properties of the extraction

\* The indices of the instances of the call whose segment is in the table of the call.
Backed == {i \in DOMAIN arg.concept_instances :
              \E k \in DOMAIN arg.text_segments :
                  arg.text_segments[k].id = arg.concept_instances[i].text_segment_id}

\* The instance the k-th representation is made for: the k-th one that is backed.
BackedAt(k) == arg.concept_instances[CHOOSE i \in Backed :
                                        Cardinality({j \in Backed : j < i}) = k - 1]

\* C21: extract_all_representations returns, in the order of the instances, one
\* representation for each instance whose segment is among the segments given (also for
\* two instances of one segment), keyed by the segment id and carrying the confidence
\* of the instance; an instance whose segment is missing gives no representation and
\* does not stop the extraction of the later ones.
OneRepresentationPerBackedInstance ==
    last.op = "extract_all_representations" =>
        /\ Len(last.ret) = Cardinality(Backed)
        /\ \A k \in DOMAIN last.ret :
              /\ last.ret[k].concept_instance_id = BackedAt(k).text_segment_id
              /\ last.ret[k].metadata.confidence = BackedAt(k).confidence
              /\ last.ret[k].metadata.concept_id = BackedAt(k).concept_id

\* An instance whose segment is missing comes first; the two after it, both of one
\* segment, are extracted.
ExtractedAfterMissingSegment ==
    /\ last.op = "extract_all_representations"
    /\ Len(arg.concept_instances) = 3
    /\ 1 \notin Backed
    /\ Backed = {2, 3}
    /\ arg.concept_instances[2].text_segment_id = arg.concept_instances[3].text_segment_id
    /\ arg.concept_instances[2].confidence # arg.concept_instances[3].confidence
    /\ Len(last.ret) = 2
    /\ last.ret[1].metadata.confidence = arg.concept_instances[2].confidence
    /\ last.ret[2].metadata.confidence = arg.concept_instances[3].confidence

MaxWords == 3

\* The words the texts are made of: a stop word, a short word, and three other words,
\* one of them capitalised and followed by a comma.
WordPool == {"the", "up", "tax", "Gap,", "pay"}

\* The texts: up to MaxWords words separated by spaces.
KeywordTexts == {join(" ", ws) : ws \in ListsUpTo(WordPool, MaxWords)}

\* The exclusion lists: none, a word of the texts, another one capitalised.
ExclusionLists == { None, <<"pay">>, <<"Gap">> }

\* The values of keyword_count.
KeywordCounts == {1, 2, DefaultKeywordCount}

KeywordInit ==
    /\ EMBEDDINGS_AVAILABLE = TRUE
    /\ backend = WorkingBackend
    /\ ctor \in {[keyword_count |-> n] : n \in KeywordCounts}
    /\ assigner = RepresentationExtractorInit(ctor, EMBEDDINGS_AVAILABLE, backend)
    /\ \E text \in KeywordTexts, exclude_words \in ExclusionLists :
          arg = [text |-> text, exclude_words |-> exclude_words]
    /\ last = NoCall

\* extractor._normalize_text(text)
NormalizeText ==
    /\ last' = MetricCall("_normalize_text", _normalize_text(arg.text))
    /\ UNCHANGED <<EMBEDDINGS_AVAILABLE, backend, assigner, ctor, arg>>

\* extractor._extract_keywords(text, exclude_words)
ExtractKeywords ==
    /\ last' = MetricCall("_extract_keywords",
                          _extract_keywords(arg.text, arg.exclude_words,
                                            assigner.keyword_count))
    /\ UNCHANGED <<EMBEDDINGS_AVAILABLE, backend, assigner, ctor, arg>>

KeywordNext ==
    \/ NormalizeText
    \/ ExtractKeywords

KeywordSpec == KeywordInit /\ [][KeywordNext]_vars

\* ------------------------------------------ properties of the keyword extraction

\* The tokens of the text of the call.
TokensOf(text) == split(_normalize_text(text))

\* The token may be a keyword: longer than two characters, no stop word, not excluded by
\* the caller (whatever the case the caller wrote the word in).
Eligible(w) ==
    /\ Len(w) > 2
    /\ w \notin StopWords
    /\ \A x \in Range(arg.exclude_words) : lower(x) # w

\* How often the token occurs in the text of the call.
Frequency(w) == CountOf(TokensOf(arg.text), w)

\* Where the token occurs first in the text of the call.
FirstAt(w) == SetMin({i \in DOMAIN TokensOf(arg.text) : TokensOf(arg.text)[i] = w})

\* C22: the keyword list holds no token of length <= 2, no stop word and no word of the
\* exclusion list; it has at most keyword_count entries, all distinct; it is ordered by
\* frequency in the text descending, tokens of equal frequency in the order of their
\* first occurrence; no eligible token left out is more frequent than one included.
KeywordsAreTopEligibleTokens ==
    last.op = "_extract_keywords" =>
        /\ \A k \in DOMAIN last.ret :
              /\ last.ret[k] \in Range(TokensOf(arg.text))
              /\ Len(last.ret[k]) > 2
              /\ last.ret[k] \notin StopWords
              /\ last.ret[k] \notin Range(arg.exclude_words)
        /\ Len(last.ret) <= assigner.keyword_count
        /\ \A k, h \in DOMAIN last.ret : k # h => last.ret[k] # last.ret[h]
        /\ \A k, h \in DOMAIN last.ret :
              k < h => \/ Frequency(last.ret[k]) > Frequency(last.ret[h])
                       \/ /\ Frequency(last.ret[k]) = Frequency(last.ret[h])
                          /\ FirstAt(last.ret[k]) < FirstAt(last.ret[h])
        /\ \A w \in Range(TokensOf(arg.text)) \ Range(last.ret) :
              Eligible(w) =>
                  /\ Len(last.ret) = assigner.keyword_count
                  /\ \A k \in DOMAIN last.ret : Frequency(w) <= Frequency(last.ret[k])

\* Of three eligible tokens one is excluded by the caller; of the two others, equally
\* frequent, only the first fits into the list.
KeywordOfTiedTokens ==
    /\ last.op = "_extract_keywords"
    /\ arg.text = "pay tax Gap,"
    /\ arg.exclude_words = <<"pay">>
    /\ assigner.keyword_count = 1
    /\ last.ret = <<"tax">>

\* ------------------------------------------------------------ one process
\* The calls of one Python process, in any order: assigners and extractors are
\* constructed, batches are assigned on the assigner constructed last, and the module
\* functions assign_concepts_to_segments and run_concept_assignment are called.  The
\* backend counts what the process asks of the sentence-transformers library:
\* model_loads, the calls of SentenceTransformer(...), and concept_encodes, the calls of
\* encode on the text of a concept.

\* Most calls of SentenceTransformer(...) in a process of the model.
MaxModelLoads == 3

\* The texts concepts are embedded from.
ConceptTexts == {IncomeWealthInequalityText, ExampleConceptText}

\* concept_assignment.py:98-105, representation_extraction.py:85-93: the constructor
\* calls SentenceTransformer(...) when embeddings are asked for and the library is there.
ModelLoadsOfInit(kwargs, available) ==
    IF Arg(kwargs, "use_embeddings", TRUE) /\ available THEN 1 ELSE 0

\* The library after a call that has loaded model_loads models and handed the texts
\* encode_calls to encode.
BackendAfter(be, model_loads, encode_calls) ==
    [be EXCEPT !.model_loads = @ + model_loads,
               !.concept_encodes = [text \in ConceptTexts |->
                                       @[text] + CountOf(encode_calls, text)]]

\* The segment lists and the document files of the calls of a process.
ProcessSegLists == { <<Seg1>>, <<Seg1, Seg2>> }

ProcessDocFiles == { << <<Doc1, Doc2, Doc3>> >>, << <<Doc3>> >> }

ProcessInit ==
    /\ EMBEDDINGS_AVAILABLE = TRUE
    /\ backend = [ loads |-> TRUE, failing |-> {}, model_loads |-> 0,
                   concept_encodes |-> [text \in ConceptTexts |-> 0] ]
    /\ ctor = <<>>
    /\ assigner = None
    /\ arg = NoArg
    /\ last = NoCall

\* assigner = ConceptAssigner(**kwargs)
NewConceptAssigner ==
    \E kwargs \in CtorArgs :
        /\ backend.model_loads + ModelLoadsOfInit(kwargs, EMBEDDINGS_AVAILABLE) <= MaxModelLoads
        /\ ctor' = kwargs
        /\ assigner' = ConceptAssignerInit(kwargs, EMBEDDINGS_AVAILABLE, backend)
        /\ backend' = BackendAfter(backend, ModelLoadsOfInit(kwargs, EMBEDDINGS_AVAILABLE), <<>>)
        /\ last' = [op |-> "ConceptAssigner", kwargs |-> kwargs]
        /\ UNCHANGED <<EMBEDDINGS_AVAILABLE, arg>>

\* extractor = RepresentationExtractor(**kwargs)
NewRepresentationExtractor ==
    \E kwargs \in ExtractorArgs :
        /\ backend.model_loads + ModelLoadsOfInit(kwargs, EMBEDDINGS_AVAILABLE) <= MaxModelLoads
        /\ backend' = BackendAfter(backend, ModelLoadsOfInit(kwargs, EMBEDDINGS_AVAILABLE), <<>>)
        /\ last' = [ op |-> "RepresentationExtractor", kwargs |-> kwargs,
                     ret |-> RepresentationExtractorInit(kwargs, EMBEDDINGS_AVAILABLE, backend) ]
        /\ UNCHANGED <<EMBEDDINGS_AVAILABLE, assigner, ctor, arg>>

\* The process after assigner.assign_all_concepts has returned r.
AssignerBatchDone(text_segments, concept_ids, r) ==
    /\ AssignAllConceptsDone(text_segments, concept_ids, r)
    /\ backend' = BackendAfter(backend, 0, r.encode_calls)

\* assigner.assign_all_concepts(text_segments, concept_ids) on the assigner constructed
\* last.
AssignerBatch ==
    /\ assigner # None
    /\ \E text_segments \in ProcessSegLists, concept_ids \in CidLists :
          AssignerBatchDone(text_segments, concept_ids,
              assign_all_concepts(assigner, text_segments, concept_ids, backend))
    /\ UNCHANGED <<EMBEDDINGS_AVAILABLE, ctor, arg>>

\* The process after assign_concepts_to_segments has returned r.
HelperBatchDone(text_segments, concept_ids, kwargs, r) ==
    /\ last' = BatchCall("assign_concepts_to_segments", text_segments, concept_ids, kwargs, r)
    /\ backend' = BackendAfter(backend, ModelLoadsOfInit(kwargs, EMBEDDINGS_AVAILABLE),
                               r.encode_calls)

\* assign_concepts_to_segments(text_segments, concept_ids, **kwargs): the assigner is
\* constructed by the call and dropped when it returns.
HelperBatch ==
    /\ \E text_segments \in ProcessSegLists, concept_ids \in CidLists, kwargs \in HelperArgs :
          /\ backend.model_loads + ModelLoadsOfInit(kwargs, EMBEDDINGS_AVAILABLE) <= MaxModelLoads
          /\ HelperBatchDone(text_segments, concept_ids, kwargs,
                 assign_concepts_to_segments(text_segments, concept_ids, kwargs,
                                             EMBEDDINGS_AVAILABLE, backend))
    /\ UNCHANGED <<EMBEDDINGS_AVAILABLE, assigner, ctor, arg>>

\* concept_assignment.py:633-660: the run gets as far as assign_concepts_to_segments when
\* there are concepts, the documents file is there and the documents give segments.
RunReachesAssignment(documents_file, kwargs) ==
    /\ Len(ResolveConceptIds(Arg(kwargs, "concept_ids", None),
                             Arg(kwargs, "use_all_concepts", TRUE))) > 0
    /\ documents_file # None
    /\ Len(canonicalize_documents(documents_file[1])) > 0

\* The process after run_concept_assignment has returned r.
ProcessRunDone(documents_file, kwargs, r) ==
    /\ last' = RunCall(documents_file, kwargs, r)
    /\ backend' = BackendAfter(backend,
                               IF RunReachesAssignment(documents_file, kwargs)
                               THEN ModelLoadsOfInit(<<>>, EMBEDDINGS_AVAILABLE) ELSE 0,
                               r.encode_calls)

\* run_concept_assignment(documents_path, output_path)
ProcessRun ==
    /\ backend.model_loads < MaxModelLoads
    /\ \E documents_file \in ProcessDocFiles :
          ProcessRunDone(documents_file, <<>>,
              run_concept_assignment(documents_file, <<>>, EMBEDDINGS_AVAILABLE, backend))
    /\ UNCHANGED <<EMBEDDINGS_AVAILABLE, assigner, ctor, arg>>

ProcessNext ==
    \/ NewConceptAssigner
    \/ NewRepresentationExtractor
    \/ AssignerBatch
    \/ HelperBatch
    \/ ProcessRun

ProcessSpec == ProcessInit /\ [][ProcessNext]_vars

\* ------------------------------------------------ properties of the process

\* C24: the embedding model is loaded once per process and reused: over any sequence of
\* constructions of the assigner and of the extractor and of calls of
\* assign_concepts_to_segments and run_concept_assignment, SentenceTransformer(...) is
\* called at most once.
ModelLoadedAtMostOnce == backend.model_loads <= 1

\* C25: the cache of concept embeddings lasts as long as the process: over any sequence
\* of assignment calls the embedding of a concept is computed at most once, every later
\* score using the cached vector.
ConceptEmbeddedAtMostOnce ==
    \A text \in ConceptTexts : backend.concept_encodes[text] <= 1

\* ------------------------------------------------------------------- views
\* src/views/view_generator.py.  A pandas DataFrame is the list of its rows (records),
\* in order; the similarity matrix, indexed by source, is the list of its sources
\* and its cells.

\* view_generator.py:37-47, ViewGenerator.__init__
ViewGeneratorInit(kwargs) == [output_dir |-> Arg(kwargs, "output_dir", "analysis_output")]

\* A variant of ResultAfterView in which the lookups of the similarity table leave the
\* keys they miss behind in result.values.
ResultWithMirroredKeys(result) ==
    IF result.metric_type # "source_similarity" THEN result
    ELSE [result EXCEPT !.values =
            [key \in {PairKey(result.sources[p[1]], result.sources[p[2]]) :
                         p \in OrderedSourcePairs(result.sources)} |->
                IF key \in DOMAIN result.values THEN result.values[key] ELSE Finite(0)]]

\* view_generator.py:49-129: the result a generate_* method was given, after the call.
\* The methods read result.metric_type, result.sources and result.values, and assign
\* to none of them.
ResultAfterView(result) == result

\* The outcome of a method that raises.
ViewRaised(error, result) ==
    [raised |-> TRUE, error |-> error, ret |-> None, result |-> ResultAfterView(result)]

\* The outcome of a method that returns the table.
ViewReturned(table, result) ==
    [raised |-> FALSE, error |-> "", ret |-> table, result |-> ResultAfterView(result)]

\* dict.get(key)
GetOrNone(values, key) == IF key \in DOMAIN values THEN values[key] ELSE None

\* The truth value of None and of a float: None and 0.0 are false, nan is true.
Truthy(x) == x # None /\ x # Finite(0)

\* view_generator.py:68-74: 1.0 on the diagonal, else the first of the two keys that
\* has a true value, else 0.0.
SimilarityCell(values, source1, source2) ==
    IF source1 = source2 THEN Finite(Scale)
    ELSE IF Truthy(GetOrNone(values, PairKey(source1, source2)))
    THEN values[PairKey(source1, source2)]
    ELSE IF Truthy(GetOrNone(values, PairKey(source2, source1)))
    THEN values[PairKey(source2, source1)]
    ELSE Finite(0)

\* view_generator.py:49-79.  set_index('source') raises KeyError on the frame of no rows.
generate_similarity_table(result) ==
    IF result.metric_type # "source_similarity" THEN ViewRaised("ValueError", result)
    ELSE IF Len(result.sources) = 0 THEN ViewRaised("KeyError", result)
    ELSE ViewReturned(
            [ index |-> result.sources,
              cells |-> [i \in DOMAIN result.sources |->
                            [j \in DOMAIN result.sources |->
                                SimilarityCell(result.values, result.sources[i],
                                               result.sources[j])]] ],
            result)

\* view_generator.py:94-103: the rows of one source, ranks counted from 1.
LexicalRowsOf(source_id, data) ==
    [i \in DOMAIN Take(data.top_keywords, TopKeywordCount) |->
        [ source |-> source_id, rank |-> i, keyword |-> data.top_keywords[i],
          count |-> IF data.top_keywords[i] \in DOMAIN data.keyword_counts
                    THEN data.keyword_counts[data.top_keywords[i]] ELSE 0 ]]

RECURSIVE LexicalRows(_, _, _)
\* view_generator.py:92-103: the rows of the sources from the k-th on, in the order of
\* result.values, which is the order of result.sources.
LexicalRows(sources, values, k) ==
    IF k > Len(sources) THEN <<>>
    ELSE LexicalRowsOf(sources[k], values[sources[k]]) \o LexicalRows(sources, values, k + 1)

\* view_generator.py:81-106
generate_lexical_table(result) ==
    IF result.metric_type # "lexical_patterns" THEN ViewRaised("ValueError", result)
    ELSE ViewReturned(LexicalRows(result.sources, result.values, 1), result)

\* str(d) for a digit d.
DigitString(d) == SubSeq("0123456789", d + 1, d + 1)

RECURSIVE DecimalString(_)
\* str(n) for a natural number n.
DecimalString(n) ==
    IF n < 10 THEN DigitString(n) ELSE DecimalString(n \div 10) \o DigitString(n % 10)

\* f"{x:.3f}" of the fixed-point number x.
FormatThreeDecimals(x) ==
    (IF x < 0 THEN "-" ELSE "")
        \o DecimalString(Max(x, 0 - x) \div Scale) \o "."
        \o DigitString((Max(x, 0 - x) % Scale) \div 100)
        \o DigitString((Max(x, 0 - x) % 100) \div 10)
        \o DigitString(Max(x, 0 - x) % 10)

\* view_generator.py:117-125
CoverageRow(source_id, data) ==
    [ source |-> source_id,
      documents |-> data.document_count,
      segments |-> data.segment_count,
      avg_confidence |-> FormatThreeDecimals(data.avg_confidence),
      min_confidence |-> FormatThreeDecimals(data.min_confidence),
      max_confidence |-> FormatThreeDecimals(data.max_confidence) ]

\* view_generator.py:108-129
generate_coverage_table(result) ==
    IF result.metric_type # "coverage" THEN ViewRaised("ValueError", result)
    ELSE ViewReturned([k \in DOMAIN result.sources |->
                          CoverageRow(result.sources[k], result.values[result.sources[k]])],
                      result)

\* view_generator.py:139-155: the table and the name of the file of a result; None for a
\* result of another metric type, which is passed over.
TableFileOf(self, result, prefix) ==
    IF result.metric_type = "source_similarity"
    THEN <<[ path |-> self.output_dir \o "/" \o prefix \o "_similarity_matrix.csv",
             written |-> generate_similarity_table(result) ]>>
    ELSE IF result.metric_type = "lexical_patterns"
    THEN <<[ path |-> self.output_dir \o "/" \o prefix \o "_lexical_patterns.csv",
             written |-> generate_lexical_table(result) ]>>
    ELSE IF result.metric_type = "coverage"
    THEN <<[ path |-> self.output_dir \o "/" \o prefix \o "_coverage.csv",
             written |-> generate_coverage_table(result) ]>>
    ELSE None

RECURSIVE SaveLoop(_, _, _, _, _)

\* view_generator.py:139-155: the table of a result is written to its file, or the
\* error of the generate_* method ends the call.
SaveStep(self, results, prefix, k, writes, file) ==
    IF file = None THEN SaveLoop(self, results, prefix, k + 1, writes)
    ELSE IF file[1].written.raised
    THEN [ raised |-> TRUE, results |-> [results EXCEPT ![k] = file[1].written.result],
           writes |-> writes ]
    ELSE SaveLoop(self, [results EXCEPT ![k] = file[1].written.result], prefix, k + 1,
                  Append(writes, [path |-> file[1].path, table |-> file[1].written.ret]))

\* view_generator.py:139: the loop over the results, from the k-th on.
SaveLoop(self, results, prefix, k, writes) ==
    IF k > Len(results)
    THEN [raised |-> FALSE, results |-> results, writes |-> writes]
    ELSE SaveStep(self, results, prefix, k, writes, TableFileOf(self, results[k], prefix))

\* view_generator.py:131-155: the results after the call and the files written, in
\* order.
save_tables(self, results, prefix) == SaveLoop(self, results, prefix, 1, <<>>)

\* ------------------------------------------------------- the analysis pipeline
\* run_analysis.py:91-168: the stages of main for one concept.  The data loaded, the
\* representations and the results gathered are the locals of main (arg); the
\* representations are extracted first, then metrics are computed and tables are made
\* from the results gathered so far, in any order.

\* Most results gathered in all_results.
MaxResults == 2

\* The instances load_data returns.
PipelineInstances ==
    { << Reloaded(AssignedSegments[1], IncomeWealthInequality, AssignedSegments),
         Reloaded(AssignedSegments[3], IncomeWealthInequality, AssignedSegments),
         Reloaded(AssignedSegments[4], IncomeWealthInequality, AssignedSegments) >>,
      << Reloaded(AssignedSegments[1], IncomeWealthInequality, AssignedSegments),
         Reloaded(AssignedSegments[2], IncomeWealthInequality, AssignedSegments) >>,
      << Reloaded(AssignedSegments[3], IncomeWealthInequality, AssignedSegments),
         Reloaded(AssignedSegments[1], ExampleConcept, AssignedSegments) >>,
      << Assigned(AssignedSegments[1], IncomeWealthInequality) >> }

\* run_analysis.py:132
ConceptInsts(concept_instances, concept_id) ==
    SelectSeq(concept_instances, LAMBDA inst : inst.concept_id = concept_id)

\* run_analysis.py:133-134
ConceptReps(representations, concept_insts) ==
    SelectSeq(representations,
              LAMBDA rep : \E k \in DOMAIN concept_insts :
                              concept_insts[k].text_segment_id = rep.concept_instance_id)

PipelineInit ==
    /\ EMBEDDINGS_AVAILABLE = TRUE
    /\ backend \in ExtractorBackends
    /\ ctor = [use_embeddings |-> TRUE, extract_keywords |-> TRUE]
    /\ assigner = ViewGeneratorInit(<<>>)
    /\ \E concept_instances \in PipelineInstances :
          arg = [ concept_instances |-> concept_instances,
                  text_segments |-> AssignedSegments,
                  documents_df |-> AssignedDocs,
                  concept_id |-> "income_wealth_inequality",
                  representations |-> None,
                  all_results |-> <<>> ]
    /\ last = NoCall

\* run_analysis.py:114-119: representations = extractor.extract_all_representations(...)
MainExtract ==
    /\ arg.representations = None
    /\ arg' = [arg EXCEPT !.representations =
                  <<extract_all_representations(
                        RepresentationExtractorInit(ctor, EMBEDDINGS_AVAILABLE, backend),
                        arg.concept_instances, arg.text_segments, backend)>>]
    /\ last' = [op |-> "extract_all_representations"]
    /\ UNCHANGED <<EMBEDDINGS_AVAILABLE, backend, assigner, ctor>>

\* run_analysis.py:139-160: a metric has returned result; main keeps it when it is true.
MainKeeps(op, result) ==
    /\ arg' = [arg EXCEPT !.all_results = IF result # None THEN Append(@, result) ELSE @]
    /\ last' = MetricCall(op, result)

\* run_analysis.py:139-144
MainSimilarity ==
    /\ arg.representations # None
    /\ Len(arg.all_results) < MaxResults
    /\ MainKeeps("calculate_source_similarity",
                 calculate_source_similarity(
                     ConceptReps(arg.representations[1],
                                 ConceptInsts(arg.concept_instances, arg.concept_id)),
                     ConceptInsts(arg.concept_instances, arg.concept_id),
                     arg.documents_df, arg.concept_id))
    /\ UNCHANGED <<EMBEDDINGS_AVAILABLE, backend, assigner, ctor>>

\* run_analysis.py:147-152
MainLexical ==
    /\ arg.representations # None
    /\ Len(arg.all_results) < MaxResults
    /\ MainKeeps("analyze_lexical_patterns",
                 analyze_lexical_patterns(
                     ConceptReps(arg.representations[1],
                                 ConceptInsts(arg.concept_instances, arg.concept_id)),
                     ConceptInsts(arg.concept_instances, arg.concept_id),
                     arg.documents_df, arg.concept_id))
    /\ UNCHANGED <<EMBEDDINGS_AVAILABLE, backend, assigner, ctor>>

\* run_analysis.py:155-160
MainCoverage ==
    /\ arg.representations # None
    /\ Len(arg.all_results) < MaxResults
    /\ MainKeeps("analyze_coverage",
                 analyze_coverage(ConceptInsts(arg.concept_instances, arg.concept_id),
                                  arg.documents_df, arg.concept_id))
    /\ UNCHANGED <<EMBEDDINGS_AVAILABLE, backend, assigner, ctor>>

\* A generate_* method called on the k-th result gathered has returned r: the result
\* is as the method left it.
ViewDone(op, k, r) ==
    /\ arg' = [arg EXCEPT !.all_results[k] = r.result]
    /\ last' = [op |-> op, result |-> arg.all_results[k], raised |-> r.raised,
                error |-> r.error, ret |-> r.ret]

\* view_gen.generate_similarity_table(result)
ViewSimilarityTable ==
    /\ \E k \in DOMAIN arg.all_results :
          ViewDone("generate_similarity_table", k,
                   generate_similarity_table(arg.all_results[k]))
    /\ UNCHANGED <<EMBEDDINGS_AVAILABLE, backend, assigner, ctor>>

\* view_gen.generate_lexical_table(result)
ViewLexicalTable ==
    /\ \E k \in DOMAIN arg.all_results :
          ViewDone("generate_lexical_table", k, generate_lexical_table(arg.all_results[k]))
    /\ UNCHANGED <<EMBEDDINGS_AVAILABLE, backend, assigner, ctor>>

\* view_gen.generate_coverage_table(result)
ViewCoverageTable ==
    /\ \E k \in DOMAIN arg.all_results :
          ViewDone("generate_coverage_table", k, generate_coverage_table(arg.all_results[k]))
    /\ UNCHANGED <<EMBEDDINGS_AVAILABLE, backend, assigner, ctor>>

\* The locals of main and the record of the call after save_tables has returned r.
SaveTablesDone(r) ==
    /\ arg' = [arg EXCEPT !.all_results = r.results]
    /\ last' = [op |-> "save_tables", raised |-> r.raised, writes |-> r.writes]

\* run_analysis.py:167-168: view_gen.save_tables(all_results)
ViewSaveTables ==
    /\ arg.representations # None
    /\ SaveTablesDone(save_tables(assigner, arg.all_results, "analysis"))
    /\ UNCHANGED <<EMBEDDINGS_AVAILABLE, backend, assigner, ctor>>

PipelineNext ==
    \/ MainExtract
    \/ MainSimilarity
    \/ MainLexical
    \/ MainCoverage
    \/ ViewSimilarityTable
    \/ ViewLexicalTable
    \/ ViewCoverageTable
    \/ ViewSaveTables

PipelineSpec == PipelineInit /\ [][PipelineNext]_vars

\* ---------------------------------------------- properties of the pipeline

TermWords(term) ==
    IF Contains(" ", lower(term)) THEN Range(split(lower(term))) ELSE {lower(term)}

\* A seed term counts as a phrase match: it is in the normalized text verbatim, or all
\* its words are tokens of the text.
TermMatches(term, normalized_text, tokens) ==
    \/ Contains(lower(term), normalized_text)
    \/ TermWords(term) \subseteq tokens

\* The number of seed terms that count as a phrase match.
SpecifiedPhraseMatches(seed_terms, normalized_text, tokens) ==
    Cardinality({i \in DOMAIN seed_terms : TermMatches(seed_terms[i], normalized_text, tokens)})

\* The number of words of seed terms that are tokens of the text.
SpecifiedWordMatches(seed_terms, tokens) ==
    Cardinality(UNION {TermWords(seed_terms[i]) : i \in DOMAIN seed_terms} \cap tokens)

\* The effective match count.
SpecifiedMatches(phrase_matches, word_matches) ==
    IF phrase_matches > 0 THEN phrase_matches * Scale
    ELSE IF word_matches >= 2 THEN Scale
    ELSE IF word_matches = 1 THEN 500
    ELSE 0

\* The table of base scores.
SpecifiedBaseScore(matches) ==
    CASE matches = 0 -> 0
      [] matches = 500 -> 150
      [] matches = 1000 -> 300
      [] matches = 2000 -> 500
      [] matches = 3000 -> 650
      [] matches >= 4000 -> 800 + Min(200, ((matches \div 1000) - 4) * 50)

\* The score of an effective match count for a number of seed terms.
SpecifiedScoreOf(matches, total_seed_terms) ==
    IF matches = 0 \/ total_seed_terms = 0 THEN 0
    ELSE IF matches * 10 > total_seed_terms * Scale
    THEN Min(1000, SpecifiedBaseScore(matches) + 100)
    ELSE SpecifiedBaseScore(matches)

\* The specified score of a text for a concept.
SpecifiedScore(seed_terms, normalized_text, tokens) ==
    SpecifiedScoreOf(
        SpecifiedMatches(SpecifiedPhraseMatches(seed_terms, normalized_text, tokens),
                         SpecifiedWordMatches(seed_terms, tokens)),
        Len(seed_terms))

SeedTermInTextIsMatched ==
    last.op = "_keyword_match_score" =>
        \A term \in Range(ConceptOf(last.concept_id).seed_terms) :
            Contains(lower(term), lower(last.text)) =>
                /\ last.phrase_matches >= 1
                /\ last.ret >= 300

\* ------------------------------------------------ canonicalization on its own
\* canonicalize_document called on a canonicalizer with short length limits and on
\* texts made of a few sentences and paragraph breaks.

\* Longest text of CanonSpec, in pieces (sentences and paragraph breaks).
MaxPieces == 3

\* The pieces of the texts: three sentences, one of them longer than the longest
\* segment allowed, and a paragraph break.
PiecePool == {"Ab cd.", "Ef!", "Ghijklmnopq.", "\n\n"}

CanonTexts == {join(" ", ps) : ps \in ListsUpTo(PiecePool, MaxPieces)}

\* The constructor calls: two pairs of short limits.
CanonArgs ==
    { [min_segment_length |-> 3, max_segment_length |-> 9],
      [min_segment_length |-> 5, max_segment_length |-> 12] }

CanonInit ==
    /\ EMBEDDINGS_AVAILABLE = TRUE
    /\ backend = NoBackend
    /\ ctor \in CanonArgs
    /\ assigner = TextCanonicalizerInit(ctor)
    /\ \E raw_text \in CanonTexts : arg = [document_id |-> "doc1", raw_text |-> raw_text]
    /\ last = NoCall

\* canonicalizer.normalize_whitespace(text)
NormalizeWhitespace ==
    /\ last' = MetricCall("normalize_whitespace", normalize_whitespace(arg.raw_text))
    /\ UNCHANGED <<EMBEDDINGS_AVAILABLE, backend, assigner, ctor, arg>>

\* canonicalizer.canonicalize_document(document_id, raw_text)
CanonicalizeDocument ==
    /\ last' = MetricCall("canonicalize_document",
                          canonicalize_document(assigner, arg.document_id, arg.raw_text))
    /\ UNCHANGED <<EMBEDDINGS_AVAILABLE, backend, assigner, ctor, arg>>

CanonNext ==
    \/ NormalizeWhitespace
    \/ CanonicalizeDocument

CanonSpec == CanonInit /\ [][CanonNext]_vars

\* C29: every segment canonicalize_document makes has a text of at least
\* min_segment_length and at most max_segment_length characters (also the chunks of
\* sentences a long paragraph is split into, and a single long sentence), and the
\* positions of the segments of a document are 0, 1, ..., n - 1 in the order returned.
SegmentLengthsWithinLimits ==
    last.op = "canonicalize_document" =>
        \A k \in DOMAIN last.ret :
            /\ Len(last.ret[k].text) >= assigner.min_segment_length
            /\ Len(last.ret[k].text) <= assigner.max_segment_length
            /\ last.ret[k].position = k - 1

\* ---------------------------------------------------------------------------
\* Document ingestion (src/ingestion/ingestion.py).  The articles a fetch returns
\* are the environment's choice; documents.parquet is the stored document table.
\* ---------------------------------------------------------------------------

MaxArticles == 2

\* source ids of the configuration and the type of each; "ZZ" has a type that
\* ingest_source does not know
SourceIds == {"AP", "AP:x", "ZZ"}

SourceTypeOf(source_id) == IF source_id = "ZZ" THEN "sitemap" ELSE "rss"

KnownSourceTypes == {"rss", "guardian", "newsapi"}

ArticleUrls == {"u", "x:u"}

Articles == { [url |-> u, raw_text |-> "body"] : u \in ArticleUrls }

\* what one fetch (fetch_rss_feed, fetch_guardian_api, fetch_newsapi) returns
Feeds == UNION { [1..n -> Articles] : n \in 0..MaxArticles }

\* sources.items(): the source ids of a configuration, in its order
SourceLists ==
    { s \in UNION { [1..n -> SourceIds] : n \in 0..2 } : \A i, j \in DOMAIN s : s[i] = s[j] => i = j }

\* hashlib.md5(key).hexdigest() of the keys the sources and urls above make
Md5Hex(key) ==
    CASE key = "AP:u" -> "1164968a4f4a87211af8acf27a551575"
      [] key = "AP:x:u" -> "399f40e2b4d4102b2e1282929c96ee54"
      [] key = "AP:x:x:u" -> "e739bbb10e4fe2391b868c9805e2f6d9"
      [] key = "ZZ:u" -> "1594f5422860f255d9402e857c61a13f"
      [] key = "ZZ:x:u" -> "988bb1e90589b047ca7104deb3ccc947"

generate_document_id(url, source_id) == Md5Hex(source_id \o ":" \o url)

create_document(article_data, source_id, source_type) ==
    [id |-> generate_document_id(article_data.url, source_id),
     source_id |-> source_id,
     raw_text |-> article_data.raw_text,
     url |-> article_data.url,
     source_type |-> source_type]

\* the stored table: no file, or the rows of documents.parquet
NoFile == None

FileOf(rows) == <<rows>>

RowsOf(file) == IF file = NoFile THEN <<>> ELSE file[1]

\* self._load_existing_documents(): existing_documents and existing_ids; a file
\* that cannot be read is taken as an empty table
_load_existing_documents(self, disk) ==
    IF disk.documents_parquet # NoFile /\ disk.readable
    THEN [self EXCEPT !.existing_documents = RowsOf(disk.documents_parquet),
                      !.existing_ids = { RowsOf(disk.documents_parquet)[k].id :
                                           k \in DOMAIN RowsOf(disk.documents_parquet) }]
    ELSE [self EXCEPT !.existing_documents = <<>>, !.existing_ids = {}]

DocumentIngesterInit(base_path, disk) ==
    _load_existing_documents([base_path |-> base_path,
                              existing_documents |-> None,
                              existing_ids |-> {}], disk)

IsDuplicateOfNone(document, existing_ids) == FALSE

\* document['id'] in self.existing_ids
IsDuplicate(document, existing_ids) == document.id \in existing_ids

\* one turn of the loop of ingest_source over the articles
KeepNewDocument(document, acc) ==
    IF IsDuplicate(document, acc.existing_ids)
    THEN [acc EXCEPT !.skipped_count = @ + 1]
    ELSE [acc EXCEPT !.new_documents = Append(@, document),
                     !.existing_ids = @ \cup {document.id}]

RECURSIVE FilterDuplicates(_, _, _, _, _)
FilterDuplicates(articles, k, source_id, source_type, acc) ==
    IF k > Len(articles) THEN acc
    ELSE FilterDuplicates(articles, k + 1, source_id, source_type,
                          KeepNewDocument(create_document(articles[k], source_id, source_type), acc))

IngestSourceResult(self, acc) ==
    [self |-> [self EXCEPT !.existing_ids = acc.existing_ids], ret |-> acc.new_documents]

\* ingester.ingest_source(source_id, source_config), the fetch returning articles
ingest_source(self, source_id, source_type, articles) ==
    IF source_type \notin KnownSourceTypes
    THEN [self |-> self, ret |-> <<>>]
    ELSE IngestSourceResult(self,
             FilterDuplicates(articles, 1, source_id, source_type,
                              [existing_ids |-> self.existing_ids,
                               new_documents |-> <<>>,
                               skipped_count |-> 0]))

\* the loop of ingest_all_sources over sources.items(); run is
\* [self, all_new_documents]
IngestedSource(run, res) ==
    [self |-> res.self, all_new_documents |-> run.all_new_documents \o res.ret]

RECURSIVE IngestSources(_, _, _, _)
IngestSources(sources, feeds, k, run) ==
    IF k > Len(sources) THEN run
    ELSE IngestSources(sources, feeds, k + 1,
                       IngestedSource(run, ingest_source(run.self, sources[k],
                                                         SourceTypeOf(sources[k]), feeds[k])))

\* pd.concat([self.existing_documents, new_df]) or new_df alone
CombinedWith(existing_documents, all_new_documents) ==
    IF existing_documents # <<>> THEN existing_documents \o all_new_documents
    ELSE all_new_documents

\* the end of ingest_all_sources: save the combined table and keep it
SaveCombined(run, disk) ==
    IF run.all_new_documents # <<>>
    THEN [self |-> [run.self EXCEPT !.existing_documents =
                        CombinedWith(run.self.existing_documents, run.all_new_documents)],
          disk |-> [disk EXCEPT !.documents_parquet =
                        FileOf(CombinedWith(run.self.existing_documents, run.all_new_documents))],
          ret |-> CombinedWith(run.self.existing_documents, run.all_new_documents)]
    ELSE [self |-> run.self, disk |-> disk, ret |-> run.self.existing_documents]

\* ingester.ingest_all_sources(sources), the fetch of sources[k] returning feeds[k]
ingest_all_sources(self, disk, sources, feeds) ==
    SaveCombined(IngestSources(sources, feeds, 1, [self |-> self, all_new_documents |-> <<>>]),
                 disk)

IngestInit ==
    /\ EMBEDDINGS_AVAILABLE = TRUE
    /\ backend = [documents_parquet |-> NoFile, readable |-> TRUE]
    /\ ctor = [base_path |-> "data/raw"]
    /\ assigner = DocumentIngesterInit(ctor.base_path, backend)
    /\ arg = None
    /\ last = NoCall

\* the ids of the articles the fetches of a call returned
FetchedIds(sources, feeds) ==
    UNION { { generate_document_id(feeds[s][k].url, sources[s]) : k \in DOMAIN feeds[s] } :
              s \in DOMAIN sources }

IngestCall(op, fetched, stored_before, ret) ==
    [op |-> op, fetched |-> fetched, stored_before |-> stored_before, ret |-> ret]

\* ingester = DocumentIngester(): a new process on the same base path
NewDocumentIngester ==
    /\ assigner' = DocumentIngesterInit(ctor.base_path, backend)
    /\ last' = IngestCall("__init__", {}, RowsOf(backend.documents_parquet),
                          assigner'.existing_documents)
    /\ UNCHANGED <<EMBEDDINGS_AVAILABLE, backend, ctor, arg>>

IngestSourceDone(res, source_id, articles) ==
    /\ assigner' = res.self
    /\ last' = IngestCall("ingest_source", FetchedIds(<<source_id>>, <<articles>>),
                          RowsOf(backend.documents_parquet), res.ret)
    /\ UNCHANGED <<EMBEDDINGS_AVAILABLE, backend, ctor, arg>>

\* ingester.ingest_source(source_id, SOURCES[source_id])
IngestSource ==
    \E source_id \in SourceIds, articles \in Feeds :
        IngestSourceDone(ingest_source(assigner, source_id, SourceTypeOf(source_id), articles),
                         source_id, articles)

IngestAllSourcesDone(res, sources, feeds) ==
    /\ assigner' = res.self
    /\ backend' = res.disk
    /\ last' = IngestCall("ingest_all_sources", FetchedIds(sources, feeds),
                          RowsOf(backend.documents_parquet), res.ret)
    /\ UNCHANGED <<EMBEDDINGS_AVAILABLE, ctor, arg>>

\* ingester.ingest_all_sources(sources)
IngestAllSources ==
    \E sources \in SourceLists :
        \E feeds \in [DOMAIN sources -> Feeds] :
            IngestAllSourcesDone(ingest_all_sources(assigner, backend, sources, feeds),
                                 sources, feeds)

IngestNext ==
    \/ NewDocumentIngester
    \/ IngestSource
    \/ IngestAllSources

IngestSpec == IngestInit /\ [][IngestNext]_vars

StoredTable == RowsOf(backend.documents_parquet)

IdsOf(rows) == { rows[k].id : k \in DOMAIN rows }

====
